---- MODULE Spec2Model ----
(***************************************************************************)
(* A model of the InnoDB redo log tool: the MySQL block reader             *)
(* (MySQLRedoLogReader), its compressed-integer decoder, its checkpoint    *)
(* locator, and the multi-record-group pass of cmd/redolog-tool.           *)
(*                                                                         *)
(* Bytes are naturals 0..255.  A uint64 is a sequence of 8 bytes, most     *)
(* significant first (U64), because values of the file reach 2^64.         *)
(***************************************************************************)
EXTENDS Integers, Naturals, Sequences, FiniteSets, TLC

VARIABLES
    mode,       \* which component the behaviour exercises: "reader", "codec", "groups", ...
    file,       \* the redo log file on disk (the reader's input)
    r,          \* the MySQLRedoLogReader struct, with the offset of its *os.File
    phase,      \* position of the reader's caller: "opened", "header", "failed"
    header,     \* value returned by ReadHeader (NULL before the call)
    last,       \* outcome of the latest ReadRecord call
    out,        \* records returned by ReadRecord so far, in order
    value,      \* the uint64 that data encodes, NULL when data is any byte string
    data,       \* argument of parseCompressedUint64
    parsed,     \* its result (NULL before the call)
    records,    \* the []*types.LogRecord slice handed to detectMultiRecordGroups
    before,     \* that slice as it was before the first pass
    passes,     \* number of detectMultiRecordGroups calls made on records
    kind,       \* dynamic type of loadRedoLogData's readerInstance: "mysql", "fixture"
    handle,     \* the *os.File of readerInstance: "nil", "open", "closed"
    cursor,     \* loop variables of the grouping pass inside loadRedoLogData
    ret,        \* what loadRedoLogData returned (NULL while it runs)
    app         \* the RedoLogApp struct of the terminal interface (NULL outside it)

vars == <<mode, file, r, phase, header, last, out, value, data, parsed, records, before, passes,
          kind, handle, cursor, ret, app>>

NULL == [nil |-> TRUE]     \* a nil pointer or slice
NoError == "nil"           \* a nil error

Min(a, b) == IF a < b THEN a ELSE b
Max(a, b) == IF a > b THEN a ELSE b

(***************************************************************************)
(* Program constants (internal/reader, MySQL format).                      *)
(***************************************************************************)
OSFileLogBlockSize == 512
LogBlockHdrSize == 12
LogBlockTrlSize == 4
LogBlockDataSize == OSFileLogBlockSize - LogBlockHdrSize - LogBlockTrlSize
LogBlockHdrDataLen == 4
LogBlockFirstRecGroup == 6
LogFileHdrSize == 4 * OSFileLogBlockSize
LogCheckpoint1 == OSFileLogBlockSize
LogCheckpoint2 == 3 * OSFileLogBlockSize
LogCheckpointNo == 0
LogCheckpointLSN == 8
LogCheckpointOffset == 16
MaxRecordType == 76
MLogMultiRecEnd == 31

(***************************************************************************)
(* uint64 values as 8 bytes, most significant first.                       *)
(***************************************************************************)
Byte == 0..255
U64Zero == <<0, 0, 0, 0, 0, 0, 0, 0>>

\* the uint64 of a small natural (n < 2^31)
U64(n) == <<0, 0, 0, 0, (n \div 16777216) % 256, (n \div 65536) % 256,
            (n \div 256) % 256, n % 256>>

\* a uint64 known to be below 2^31, as a natural
U64Small(v) == v[1] = 0 /\ v[2] = 0 /\ v[3] = 0 /\ v[4] = 0 /\ v[5] < 128
U64Int(v) == ((v[5] * 256 + v[6]) * 256 + v[7]) * 256 + v[8]

RECURSIVE U64LessFrom(_, _, _)
U64LessFrom(a, b, i) ==
    IF i > 8 THEN FALSE
    ELSE IF a[i] # b[i] THEN a[i] < b[i]
    ELSE U64LessFrom(a, b, i + 1)
\* a < b on uint64
U64Less(a, b) == U64LessFrom(a, b, 1)

\* binary.LittleEndian.Uint64(b[off:off+8]), off counted from 0
LittleEndianUint64(b, off) == [i \in 1..8 |-> b[off + 9 - i]]
\* BigEndianUint64 taking the low byte first
BigEndianUint64Swapped(b, off) == [i \in 1..8 |-> b[off + 9 - i]]
\* binary.BigEndian.Uint64(b[off:off+8])
BigEndianUint64(b, off) == [i \in 1..8 |-> b[off + i]]
\* binary.LittleEndian.Uint16(b[off:off+2])
LittleEndianUint16(b, off) == b[off + 1] + 256 * b[off + 2]
\* binary.LittleEndian.Uint32(b[off:off+4]) as the four bytes, most significant first
LittleEndianUint32(b, off) == <<b[off + 4], b[off + 3], b[off + 2], b[off + 1]>>

\* data[from:] of a Go slice, from counted from 0
SliceFrom(s, from) == SubSeq(s, from + 1, Len(s))

\* parseCompressedUint64 with the 3-byte form masked like the 4-byte form
parseCompressedNarrowMask(d) ==
    IF Len(d) = 0 THEN [value |-> U64Zero, bytesRead |-> 0]
    ELSE LET firstByte == d[1] IN
    IF firstByte < 128 THEN
        [value |-> <<0, 0, 0, 0, 0, 0, 0, firstByte>>, bytesRead |-> 1]
    ELSE IF firstByte < 192 THEN
        IF Len(d) < 2 THEN [value |-> U64Zero, bytesRead |-> 0]
        ELSE [value |-> <<0, 0, 0, 0, 0, 0, firstByte % 64, d[2]>>, bytesRead |-> 2]
    ELSE IF firstByte < 224 THEN
        IF Len(d) < 3 THEN [value |-> U64Zero, bytesRead |-> 0]
        ELSE [value |-> <<0, 0, 0, 0, 0, firstByte % 16, d[2], d[3]>>, bytesRead |-> 3]
    ELSE IF firstByte < 240 THEN
        IF Len(d) < 4 THEN [value |-> U64Zero, bytesRead |-> 0]
        ELSE [value |-> <<0, 0, 0, 0, firstByte % 16, d[2], d[3], d[4]>>, bytesRead |-> 4]
    ELSE IF firstByte < 248 THEN
        IF Len(d) < 5 THEN [value |-> U64Zero, bytesRead |-> 0]
        ELSE [value |-> <<0, 0, 0, firstByte % 8, d[2], d[3], d[4], d[5]>>, bytesRead |-> 5]
    ELSE IF firstByte = 255 THEN
        IF Len(d) < 9 THEN [value |-> U64Zero, bytesRead |-> 0]
        ELSE [value |-> BigEndianUint64(d, 1), bytesRead |-> 9]
    ELSE [value |-> <<0, 0, 0, 0, 0, 0, 0, firstByte>>, bytesRead |-> 1]

(***************************************************************************)
(* parseCompressedUint64: the decoded value and the bytes consumed.        *)
(***************************************************************************)
parseCompressedUint64(d) ==
    IF Len(d) = 0 THEN [value |-> U64Zero, bytesRead |-> 0]
    ELSE LET firstByte == d[1] IN
    IF firstByte < 128 THEN
        [value |-> <<0, 0, 0, 0, 0, 0, 0, firstByte>>, bytesRead |-> 1]
    ELSE IF firstByte < 192 THEN
        IF Len(d) < 2 THEN [value |-> U64Zero, bytesRead |-> 0]
        ELSE [value |-> <<0, 0, 0, 0, 0, 0, firstByte % 64, d[2]>>, bytesRead |-> 2]
    ELSE IF firstByte < 224 THEN
        IF Len(d) < 3 THEN [value |-> U64Zero, bytesRead |-> 0]
        ELSE [value |-> <<0, 0, 0, 0, 0, firstByte % 32, d[2], d[3]>>, bytesRead |-> 3]
    ELSE IF firstByte < 240 THEN
        IF Len(d) < 4 THEN [value |-> U64Zero, bytesRead |-> 0]
        ELSE [value |-> <<0, 0, 0, 0, firstByte % 16, d[2], d[3], d[4]>>, bytesRead |-> 4]
    ELSE IF firstByte < 248 THEN
        IF Len(d) < 5 THEN [value |-> U64Zero, bytesRead |-> 0]
        ELSE [value |-> <<0, 0, 0, firstByte % 8, d[2], d[3], d[4], d[5]>>, bytesRead |-> 5]
    ELSE IF firstByte = 255 THEN
        IF Len(d) < 9 THEN [value |-> U64Zero, bytesRead |-> 0]
        ELSE [value |-> BigEndianUint64(d, 1), bytesRead |-> 9]
    ELSE [value |-> <<0, 0, 0, 0, 0, 0, 0, firstByte>>, bytesRead |-> 1]

(***************************************************************************)
(* The file.  file.size is its length in bytes; file.cp1 and file.cp2 are  *)
(* the fields stored in the two checkpoint blocks; file.blocks are the log *)
(* blocks that follow the 2048-byte file header.  A block is described by  *)
(* its bytes 4..5 (len) and 6..7 (frg), the bytes that start at block byte *)
(* 12 (data) and the byte that fills the rest up to the trailer (fill).    *)
(* The other header bytes and the trailer hold the byte 31, a valid record *)
(* type, so that a parser that reads one of them returns a record.         *)
(***************************************************************************)
\* byte j (from 0) of a checkpoint block holding cp
CheckpointByte(cp, j) ==
    IF j >= LogCheckpointNo /\ j < LogCheckpointNo + 8 THEN cp.no[8 - (j - LogCheckpointNo)]
    ELSE IF j >= LogCheckpointLSN /\ j < LogCheckpointLSN + 8 THEN cp.lsn[8 - (j - LogCheckpointLSN)]
    ELSE IF j >= LogCheckpointOffset /\ j < LogCheckpointOffset + 8 THEN cp.off[8 - (j - LogCheckpointOffset)]
    ELSE 0

\* the 512 bytes of the log block described by b
BlockBytes(b) ==
    <<MLogMultiRecEnd, MLogMultiRecEnd, MLogMultiRecEnd, MLogMultiRecEnd, b.len[1], b.len[2], b.frg[1], b.frg[2],
      MLogMultiRecEnd, MLogMultiRecEnd, MLogMultiRecEnd, MLogMultiRecEnd>>
    \o [i \in 1..LogBlockDataSize |-> IF i <= Len(b.data) THEN b.data[i] ELSE b.fill]
    \o <<MLogMultiRecEnd, MLogMultiRecEnd, MLogMultiRecEnd, MLogMultiRecEnd>>

\* the 512 bytes of a checkpoint block holding cp
CheckpointBytes(cp) ==
    [j \in 1..OSFileLogBlockSize |-> CheckpointByte(cp, j - 1)]

\* number of bytes a read of n bytes at offset off returns
ReadCount(f, off, n) == Min(n, Max(0, f.size - off))

\* log block k (from 1) of f: a file longer than its listed blocks repeats
\* the block f.more after them
BlockOf(f, k) == IF k <= Len(f.blocks) THEN f.blocks[k] ELSE f.more

\* the block of 512 bytes of f at offset off, a multiple of 512 (in the
\* model every read is one), off + 512 <= f.size
ReadBlock(f, off) ==
    IF off = LogCheckpoint1 THEN CheckpointBytes(f.cp1)
    ELSE IF off = LogCheckpoint2 THEN CheckpointBytes(f.cp2)
    ELSE IF off < LogFileHdrSize THEN [j \in 1..OSFileLogBlockSize |-> 0]
    ELSE BlockBytes(BlockOf(f, (off - LogFileHdrSize) \div OSFileLogBlockSize + 1))

(***************************************************************************)
(* The reader struct.  blockBytes is the 512-byte array of the block read  *)
(* last, which blockData is a slice of; fileOff is the offset of r.file.   *)
(***************************************************************************)
NoBlockHeader == [DataLen |-> 0, FirstRecGroup |-> 0, Checksum |-> <<0, 0, 0, 0>>]

NewMySQLRedoLogReader ==
    [fileOff |-> 0, position |-> 0, dataOffset |-> 0,
     blockData |-> [i \in 1..LogBlockDataSize |-> 0],
     blockBytes |-> <<>>,
     currentBlock |-> NoBlockHeader,
     baseLSN |-> U64Zero, currentLSN |-> U64Zero,
     lastCheckpoint |-> NULL]

RECURSIVE U64AddFrom(_, _, _)
U64AddFrom(v, c, i) ==
    IF i = 0 \/ c = 0 THEN v
    ELSE LET t == v[i] + c
         IN U64AddFrom([v EXCEPT ![i] = t % 256], t \div 256, i - 1)
\* v + n on uint64 (wraps at 2^64), n < 2^16
U64Add(v, n) == U64AddFrom(v, n, 8)

\* readNextBlock with the data region clamped at the block size, not at the trailer
readNextBlockWholeBlock(s) ==
    LET n == ReadCount(file, s.fileOff, OSFileLogBlockSize) IN
    IF n = 0 THEN [s |-> s, err |-> "EOF"]
    ELSE IF n < OSFileLogBlockSize THEN
        [s |-> [s EXCEPT !.fileOff = @ + n], err |-> "EOF"]
    ELSE
    LET blockBytes == ReadBlock(file, s.fileOff)
        hdr == [DataLen |-> LittleEndianUint16(blockBytes, LogBlockHdrDataLen),
                FirstRecGroup |-> LittleEndianUint16(blockBytes, LogBlockFirstRecGroup),
                Checksum |-> LittleEndianUint32(blockBytes, OSFileLogBlockSize - LogBlockTrlSize)]
        s1 == [s EXCEPT !.fileOff = @ + OSFileLogBlockSize,
                        !.position = @ + OSFileLogBlockSize,
                        !.currentBlock = hdr]
    IN IF hdr.DataLen = 0 THEN [s |-> s1, err |-> "end of valid log data"]
       ELSE
       LET dataStart == LogBlockHdrSize
           dataEnd == IF hdr.DataLen > OSFileLogBlockSize
                      THEN OSFileLogBlockSize
                      ELSE hdr.DataLen
       IN [s |-> [s1 EXCEPT !.blockBytes = blockBytes,
                            !.blockData = IF dataEnd > dataStart
                                          THEN SubSeq(blockBytes, dataStart + 1, dataEnd)
                                          ELSE <<>>,
                            !.dataOffset = 0,
                            !.currentLSN = U64Add(@, hdr.DataLen)],
           err |-> NoError]

(***************************************************************************)
(* readNextBlock: s is the reader, the result its new value and the error. *)
(***************************************************************************)
readNextBlock(s) ==
    LET n == ReadCount(file, s.fileOff, OSFileLogBlockSize) IN
    IF n = 0 THEN [s |-> s, err |-> "EOF"]
    ELSE IF n < OSFileLogBlockSize THEN
        [s |-> [s EXCEPT !.fileOff = @ + n], err |-> "EOF"]
    ELSE
    LET blockBytes == ReadBlock(file, s.fileOff)
        hdr == [DataLen |-> LittleEndianUint16(blockBytes, LogBlockHdrDataLen),
                FirstRecGroup |-> LittleEndianUint16(blockBytes, LogBlockFirstRecGroup),
                Checksum |-> LittleEndianUint32(blockBytes, OSFileLogBlockSize - LogBlockTrlSize)]
        s1 == [s EXCEPT !.fileOff = @ + OSFileLogBlockSize,
                        !.position = @ + OSFileLogBlockSize,
                        !.currentBlock = hdr]
    IN IF hdr.DataLen = 0 THEN [s |-> s1, err |-> "end of valid log data"]
       ELSE
       LET dataStart == LogBlockHdrSize
           dataEnd == IF hdr.DataLen > OSFileLogBlockSize - LogBlockTrlSize
                      THEN OSFileLogBlockSize - LogBlockTrlSize
                      ELSE hdr.DataLen
       IN [s |-> [s1 EXCEPT !.blockBytes = blockBytes,
                            !.blockData = IF dataEnd > dataStart
                                          THEN SubSeq(blockBytes, dataStart + 1, dataEnd)
                                          ELSE <<>>,
                            !.dataOffset = 0,
                            !.currentLSN = U64Add(@, hdr.DataLen)],
           err |-> NoError]

(***************************************************************************)
(* readDataAcrossBlocks: the bytes read (NULL on error), the reader after. *)
(***************************************************************************)
\* r.dataOffset += n
advance(s, n) == [s EXCEPT !.dataOffset = @ + n]
\* r.blockData[r.dataOffset:]
rest(s) == SliceFrom(s.blockData, s.dataOffset)

RECURSIVE readDataLoop(_, _, _)
\* copyFromBlock putting the bytes of the block before the bytes read so far
copyFromBlockPrepend(s, remaining, result, toRead) ==
    readDataLoop(advance(s, toRead), remaining - toRead,
                 SubSeq(s.blockData, s.dataOffset + 1, s.dataOffset + toRead) \o result)

\* the copy of toRead bytes of the current block, and the next iteration
copyFromBlock(s, remaining, result, toRead) ==
    readDataLoop(advance(s, toRead), remaining - toRead,
                 result \o SubSeq(s.blockData, s.dataOffset + 1, s.dataOffset + toRead))

\* the iteration after readNextBlock returned ld
copyAfterLoad(ld, remaining, result) ==
    IF ld.err # NoError THEN [s |-> ld.s, bytes |-> NULL, err |-> ld.err]
    ELSE copyFromBlock(ld.s, remaining, result, Min(remaining, Len(ld.s.blockData)))

readDataLoop(s, remaining, result) ==
    IF remaining <= 0 THEN [s |-> s, bytes |-> result, err |-> NoError]
    ELSE IF Len(s.blockData) - s.dataOffset <= 0
         THEN copyAfterLoad(readNextBlock(s), remaining, result)
         ELSE copyFromBlock(s, remaining, result,
                            Min(remaining, Len(s.blockData) - s.dataOffset))

readDataAcrossBlocks(s, length) ==
    IF length <= 0 THEN [s |-> s, bytes |-> NULL, err |-> NoError]
    ELSE readDataLoop(s, length, <<>>)

(***************************************************************************)
(* parseIndexInfo8027: the reader after the index description was read.    *)
(***************************************************************************)
parseIndexInfo8027(s) ==
    LET n == Len(s.blockData) IN
    IF s.dataOffset + 2 > n THEN s
    ELSE
    LET nFields == LittleEndianUint16(s.blockData, s.dataOffset)
        o1 == s.dataOffset + 2
        hasInstantCols == nFields >= 32768
        hasCount == hasInstantCols /\ o1 + 2 <= n
        o2 == IF hasCount THEN o1 + 2 ELSE o1
        hasActual == hasCount /\ o2 + 2 <= n
        actualNFields == IF hasActual THEN LittleEndianUint16(s.blockData, o2)
                         ELSE nFields % 32768
        o3 == IF hasActual THEN o2 + 2 ELSE o2
        o4 == IF o3 + 2 <= n THEN o3 + 2 ELSE o3
        fieldCount == IF actualNFields > 50 THEN 50 ELSE actualNFields
        nRead == Min(fieldCount, (n - o4) \div 2)
    IN [s EXCEPT !.dataOffset = o4 + 2 * nRead]

(***************************************************************************)
(* parseRecordData8027: the reader after, the payload bytes read (NULL     *)
(* when none were) and the error of the cross-block read.                  *)
(***************************************************************************)
\* int(endSegLen >> 1) exceeds what make([]byte, 0, n) accepts (2^48)
MakeSlicePanics(endSegLen) == endSegLen[1] # 0 \/ endSegLen[2] >= 2

\* a length no file of the model can supply
HugeLen == 1073741824

\* int(endSegLen >> 1)
HalfLen(endSegLen) ==
    IF U64Small(endSegLen) THEN U64Int(endSegLen) \div 2 ELSE HugeLen

\* cursor_offset: two bytes, when the block has them
skipCursorOffset(s) ==
    IF s.dataOffset + 2 <= Len(s.blockData) THEN advance(s, 2) ELSE s

\* info_and_status_bits: one byte, when the block has it
skipInfoBits(s) ==
    IF s.dataOffset + 1 <= Len(s.blockData) THEN advance(s, 1) ELSE s

\* origin_offset or mismatch_index: a compressed integer, when it decodes
skipCompressed(s) == advance(s, parseCompressedUint64(rest(s)).bytesRead)

\* the read of the payload, endSegLen >> 1 bytes
readPayload(s, endSegLen) ==
    IF MakeSlicePanics(endSegLen) /\ HalfLen(endSegLen) > 0
    THEN [s |-> s, bytes |-> NULL, err |-> "panic"]
    ELSE readDataAcrossBlocks(s, HalfLen(endSegLen))

\* what follows end_seg_len, seg its decoding at the cursor of s
afterEndSegLen(s, seg) ==
    IF seg.bytesRead = 0
    THEN [s |-> s, bytes |-> NULL, err |-> NoError]
    ELSE readPayload(IF seg.value[8] % 2 = 1
                     THEN skipCompressed(skipCompressed(skipInfoBits(advance(s, seg.bytesRead))))
                     ELSE advance(s, seg.bytesRead),
                     seg.value)

parseEndSegLen(s) == afterEndSegLen(s, parseCompressedUint64(rest(s)))

parseRecordData8027(s) == parseEndSegLen(skipCursorOffset(s))

(***************************************************************************)
(* parseMLOG_REC_INSERT_8027: the reader after, the length of the text it  *)
(* returns, the payload bytes and the error of the cross-block read.       *)
(***************************************************************************)
\* number of decimal digits of the uint64 v, for v below 2^31
RECURSIVE Digits(_)
Digits(n) == IF n < 10 THEN 1 ELSE 1 + Digits(n \div 10)

\* len("MLOG_REC_INSERT_8027: failed to parse space ID")
LenFailedSpaceID == 46
\* len("MLOG_REC_INSERT_8027: failed to parse page number")
LenFailedPageNo == 49

\* len("space_id=%d | page_no=%d"): the text goes on after it with " | " and
\* the index, record and hex parts, whose lengths are not modelled
LenInsertPrefix(spaceID, pageNo) ==
    9 + (IF U64Small(spaceID) THEN Digits(U64Int(spaceID)) ELSE 10)
    + 3 + 8 + (IF U64Small(pageNo) THEN Digits(U64Int(pageNo)) ELSE 10)

\* the end of the parse, rd the result of parseRecordData8027
insertParsed(rd, len) == [s |-> rd.s, len |-> len, bytes |-> rd.bytes, err |-> rd.err]

\* what follows the page number, page its decoding at the cursor of s
afterPageNo(s, space, page) ==
    IF page.bytesRead = 0
    THEN [s |-> s, len |-> LenFailedPageNo, bytes |-> NULL, err |-> NoError]
    ELSE insertParsed(parseRecordData8027(parseIndexInfo8027(advance(s, page.bytesRead))),
                      LenInsertPrefix(space.value, page.value))

parsePageNo(s, space) == afterPageNo(s, space, parseCompressedUint64(rest(s)))

\* what follows the space id, space its decoding at the cursor of s
afterSpaceID(s, space) ==
    IF space.bytesRead = 0
    THEN [s |-> s, len |-> LenFailedSpaceID, bytes |-> NULL, err |-> NoError]
    ELSE parsePageNo(advance(s, space.bytesRead), space)

parseMLOG_REC_INSERT_8027(s) == afterSpaceID(s, parseCompressedUint64(rest(s)))

(***************************************************************************)
(* parseValidRecord: s is the reader right after the type byte.            *)
(***************************************************************************)
Zero32 == <<0, 0, 0, 0>>

\* LogRecord with the position of the block as LSN, the cursor left out
LogRecordBlockLSN(s, recordType, recordLength, spaceID, pageNo) ==
    [Type |-> recordType,
     LSN |-> s.position,
     Length |-> recordLength,
     TransactionID |-> 0,
     TableID |-> Zero32,
     SpaceID |-> spaceID,
     PageNo |-> pageNo,
     Checksum |-> s.currentBlock.Checksum,
     MultiRecordGroup |-> 0,
     IsGroupStart |-> FALSE,
     IsGroupEnd |-> FALSE]

LogRecord(s, recordType, recordLength, spaceID, pageNo) ==
    [Type |-> recordType,
     LSN |-> s.position + s.dataOffset,
     Length |-> recordLength,
     TransactionID |-> 0,
     TableID |-> Zero32,
     SpaceID |-> spaceID,
     PageNo |-> pageNo,
     Checksum |-> s.currentBlock.Checksum,
     MultiRecordGroup |-> 0,
     IsGroupStart |-> FALSE,
     IsGroupEnd |-> FALSE]

\* case 62 when both integers decode: the record built at the early return
DynamicMetaRecord(s, recordType, recordLength, tableID) ==
    [Type |-> recordType,
     LSN |-> s.position + s.dataOffset,
     Length |-> recordLength,
     TransactionID |-> s.position,
     TableID |-> SubSeq(tableID, 5, 8),
     SpaceID |-> Zero32,
     PageNo |-> Zero32,
     Checksum |-> Zero32,
     MultiRecordGroup |-> 0,
     IsGroupStart |-> FALSE,
     IsGroupEnd |-> FALSE]

Parsed(s, rec) == [s |-> s, rec |-> rec, bytes |-> NULL, err |-> NoError]

parseNBytes(s, recordType) ==
    IF Len(s.blockData) - s.dataOffset >= 6
    THEN LET s1 == [s EXCEPT !.dataOffset = @ + 6]
         IN Parsed(s1, LogRecord(s1, recordType, 7, Zero32, Zero32))
    ELSE Parsed(s, LogRecord(s, recordType, 1, Zero32, Zero32))

parseDynamicMeta(s, recordType) ==
    LET table == parseCompressedUint64(SliceFrom(s.blockData, s.dataOffset)) IN
    IF table.bytesRead = 0 THEN Parsed(s, LogRecord(s, recordType, 1, Zero32, Zero32))
    ELSE
    LET s1 == [s EXCEPT !.dataOffset = @ + table.bytesRead]
        version == parseCompressedUint64(SliceFrom(s1.blockData, s1.dataOffset))
    IN IF version.bytesRead = 0
       THEN Parsed(s1, LogRecord(s1, recordType, 1 + table.bytesRead, Zero32, Zero32))
       ELSE
       LET s2 == [s1 EXCEPT !.dataOffset = @ + version.bytesRead]
           remaining == Len(s2.blockData) - s2.dataOffset
           maxMetadata == IF remaining > 64 THEN 64 ELSE remaining
           s3 == IF remaining > 0 THEN [s2 EXCEPT !.dataOffset = @ + maxMetadata] ELSE s2
           recordLength == 1 + table.bytesRead + version.bytesRead
                           + (IF remaining > 0 THEN maxMetadata ELSE 0)
       IN Parsed(s3, DynamicMetaRecord(s3, recordType, recordLength, table.value))

\* case 9: the record whose length is the length of the text, ins the
\* result of parseMLOG_REC_INSERT_8027
insertRecord(ins, recordType) ==
    [s |-> ins.s, rec |-> LogRecord(ins.s, recordType, ins.len, Zero32, Zero32),
     bytes |-> ins.bytes, err |-> ins.err]

parseInsert(s, recordType) == insertRecord(parseMLOG_REC_INSERT_8027(s), recordType)

parseUpdateDelete(s, recordType) ==
    IF Len(s.blockData) - s.dataOffset >= 8
    THEN LET spaceID == LittleEndianUint32(s.blockData, s.dataOffset)
             pageNo == LittleEndianUint32(s.blockData, s.dataOffset + 4)
             s1 == [s EXCEPT !.dataOffset = @ + 8]
             remainingAfterSpacePage == Len(s1.blockData) - s1.dataOffset
             extraDataLen == IF remainingAfterSpacePage > 128 THEN 128
                             ELSE remainingAfterSpacePage
             s2 == IF remainingAfterSpacePage > 0
                   THEN [s1 EXCEPT !.dataOffset = @ + extraDataLen] ELSE s1
             recordLength == 9 + (IF remainingAfterSpacePage > 0 THEN extraDataLen ELSE 0)
         IN Parsed(s2, LogRecord(s2, recordType, recordLength, spaceID, pageNo))
    ELSE Parsed(s, LogRecord(s, recordType, 1, Zero32, Zero32))

\* parseString reading 64 bytes of a record of unknown format whatever is left
parseStringFixedRead(s, recordType) ==
    LET length == LittleEndianUint16(s.blockData, s.dataOffset + 2)
        s1 == [s EXCEPT !.dataOffset = @ + 4]
        remainingAfterHeader == Len(s1.blockData) - s1.dataOffset
    IN IF length > 0 /\ length <= remainingAfterHeader /\ length <= 256
       THEN LET s2 == [s1 EXCEPT !.dataOffset = @ + length]
            IN Parsed(s2, LogRecord(s2, recordType, 5 + length, Zero32, Zero32))
       ELSE LET maxRead == 64
                s2 == [s1 EXCEPT !.dataOffset = @ + maxRead]
            IN Parsed(s2, LogRecord(s2, recordType, 5 + maxRead, Zero32, Zero32))

parseString(s, recordType) ==
    LET length == LittleEndianUint16(s.blockData, s.dataOffset + 2)
        s1 == [s EXCEPT !.dataOffset = @ + 4]
        remainingAfterHeader == Len(s1.blockData) - s1.dataOffset
    IN IF length > 0 /\ length <= remainingAfterHeader /\ length <= 256
       THEN LET s2 == [s1 EXCEPT !.dataOffset = @ + length]
            IN Parsed(s2, LogRecord(s2, recordType, 5 + length, Zero32, Zero32))
       ELSE LET maxRead == IF remainingAfterHeader > 64 THEN 64 ELSE remainingAfterHeader
                s2 == [s1 EXCEPT !.dataOffset = @ + maxRead]
            IN IF maxRead > 0
               THEN Parsed(s2, LogRecord(s2, recordType, 5 + maxRead, Zero32, Zero32))
               ELSE Parsed(s1, LogRecord(s1, recordType, 5, Zero32, Zero32))

parseValidRecord(s, recordType) ==
    LET remainingData == Len(s.blockData) - s.dataOffset IN
    IF remainingData >= 4 THEN
        IF recordType \in {1, 2, 4, 8} THEN parseNBytes(s, recordType)
        ELSE IF recordType = 62 THEN parseDynamicMeta(s, recordType)
        ELSE IF recordType = 9 THEN parseInsert(s, recordType)
        ELSE IF recordType \in {13, 14} THEN parseUpdateDelete(s, recordType)
        ELSE parseString(s, recordType)
    ELSE Parsed(s, LogRecord(s, recordType, 1, Zero32, Zero32))

(***************************************************************************)
(* ReadRecord.  The result holds the reader after the call, the record     *)
(* (NULL on error), the error (NULL on success), and what the call did:    *)
(* fileOff, the offset of the file when the record's block was searched    *)
(* (the end of that block); from, the cursor where the search began; at,   *)
(* the cursor of the record's type byte; skipped, the bytes of the block   *)
(* between the two; bytes and readErr, the payload and the error of a      *)
(* cross-block read.                                                       *)
(***************************************************************************)
ValidType(b) == ~(b = 0 \/ b > MaxRecordType)

\* searchBlock advancing two bytes over an invalid type byte
searchBlockStepTwo(s) ==
    LET n == Len(s.blockData)
        valid == {o \in s.dataOffset..(n - 2) : (o - s.dataOffset) % 2 = 0 /\ ValidType(s.blockData[o + 1])}
    IN IF valid # {}
       THEN [s |-> [s EXCEPT !.dataOffset = (CHOOSE o \in valid : \A q \in valid : o <= q) + 1],
             found |-> TRUE]
       ELSE [s |-> [s EXCEPT !.dataOffset = IF @ < n - 1 THEN n - 1 ELSE @],
             found |-> FALSE]

\* the inner loop: the reader where the loop stops and whether it stopped
\* on a valid type byte (the cursor is then one past it).  The loop looks at
\* the bytes at cursors dataOffset, dataOffset + 1, ... while two bytes are
\* left, and stops on the first that is a valid type.
searchBlock(s) ==
    LET n == Len(s.blockData)
        valid == {o \in s.dataOffset..(n - 2) : ValidType(s.blockData[o + 1])}
    IN IF valid # {}
       THEN [s |-> [s EXCEPT !.dataOffset = (CHOOSE o \in valid : \A q \in valid : o <= q) + 1],
             found |-> TRUE]
       ELSE [s |-> [s EXCEPT !.dataOffset = IF @ < n - 1 THEN n - 1 ELSE @],
             found |-> FALSE]

\* the jump to first_rec_group after a block was loaded
jumpToFirstRecGroup(s) ==
    IF s.currentBlock.FirstRecGroup > 0
    THEN LET mtrOffset == s.currentBlock.FirstRecGroup - LogBlockHdrSize
         IN IF mtrOffset >= 0 /\ mtrOffset < Len(s.blockData)
            THEN [s EXCEPT !.dataOffset = mtrOffset] ELSE s
    ELSE s

RECURSIVE ReadRecord(_)

\* the return of ReadRecord: s1 is the reader where the search began, at the
\* reader one byte past the type byte, p the result of parseValidRecord
returnRecord(s1, at, p) ==
    [s |-> p.s,
     rec |-> IF p.err = "panic" THEN NULL ELSE p.rec,
     err |-> IF p.err = "panic" THEN "panic" ELSE NoError,
     fileOff |-> s1.fileOff,
     from |-> s1.dataOffset,
     at |-> at.dataOffset - 1,
     skipped |-> SubSeq(s1.blockData, s1.dataOffset + 1, at.dataOffset - 1),
     bytes |-> IF p.err = "panic" THEN NULL ELSE p.bytes,
     readErr |-> IF p.err = "panic" THEN NoError ELSE p.err]

\* after the inner loop: the record at the type byte found, or the next block
dispatch(s1, found) ==
    IF found.found
    THEN returnRecord(s1, found.s,
                      parseValidRecord(found.s, found.s.blockData[found.s.dataOffset]))
    ELSE ReadRecord([found.s EXCEPT !.dataOffset = Len(found.s.blockData)])

searchRecord(s1) == dispatch(s1, searchBlock(s1))

\* after readNextBlock returned ld
searchLoaded(ld) ==
    IF ld.err # NoError
    THEN [s |-> ld.s, rec |-> NULL, err |-> ld.err, fileOff |-> ld.s.fileOff,
          from |-> 0, at |-> 0,
          skipped |-> <<>>, bytes |-> NULL, readErr |-> NoError]
    ELSE searchRecord(jumpToFirstRecGroup(ld.s))

ReadRecord(s) ==
    IF s.dataOffset >= Len(s.blockData) \/ s.dataOffset = 0
    THEN searchLoaded(readNextBlock(s))
    ELSE searchRecord(s)

(***************************************************************************)
(* The checkpoint locator and ReadHeader.                                  *)
(***************************************************************************)
\* parseCheckpointBlock: NULL when ReadAt cannot fill the 512 bytes
parseCheckpointBlock(offset) ==
    IF ReadCount(file, offset, OSFileLogBlockSize) < OSFileLogBlockSize THEN NULL
    ELSE LET checkpointData == ReadBlock(file, offset)
             no == LittleEndianUint64(checkpointData, LogCheckpointNo)
         IN [CheckpointNo |-> no,
             CheckpointLSN |-> LittleEndianUint64(checkpointData, LogCheckpointLSN),
             Offset |-> LittleEndianUint64(checkpointData, LogCheckpointOffset),
             IsValid |-> U64Less(U64Zero, no)]

\* findLatestCheckpoint preferring the second block when its number is smaller
findLatestCheckpointOlder ==
    LET checkpoint1 == parseCheckpointBlock(LogCheckpoint1)
        checkpoint2 == parseCheckpointBlock(LogCheckpoint2)
    IN IF checkpoint1 = NULL /\ checkpoint2 = NULL
       THEN [cp |-> NULL, err |-> "failed to read both checkpoint blocks"]
       ELSE
       LET first == IF checkpoint1 # NULL /\ checkpoint1.IsValid THEN checkpoint1 ELSE NULL
           latestCheckpoint ==
               IF checkpoint2 # NULL /\ checkpoint2.IsValid
                  /\ (first = NULL \/ U64Less(checkpoint2.CheckpointNo, first.CheckpointNo))
               THEN checkpoint2 ELSE first
       IN IF latestCheckpoint = NULL
          THEN [cp |-> NULL, err |-> "no valid checkpoint found in file header"]
          ELSE [cp |-> latestCheckpoint, err |-> NoError]

\* findLatestCheckpoint: the checkpoint stored in r.lastCheckpoint, or the error
findLatestCheckpoint ==
    LET checkpoint1 == parseCheckpointBlock(LogCheckpoint1)
        checkpoint2 == parseCheckpointBlock(LogCheckpoint2)
    IN IF checkpoint1 = NULL /\ checkpoint2 = NULL
       THEN [cp |-> NULL, err |-> "failed to read both checkpoint blocks"]
       ELSE
       LET first == IF checkpoint1 # NULL /\ checkpoint1.IsValid THEN checkpoint1 ELSE NULL
           latestCheckpoint ==
               IF checkpoint2 # NULL /\ checkpoint2.IsValid
                  /\ (first = NULL \/ U64Less(first.CheckpointNo, checkpoint2.CheckpointNo))
               THEN checkpoint2 ELSE first
       IN IF latestCheckpoint = NULL
          THEN [cp |-> NULL, err |-> "no valid checkpoint found in file header"]
          ELSE [cp |-> latestCheckpoint, err |-> NoError]

\* Seek(int64(off), io.SeekStart) fails when the offset is negative as int64
SeekFails(off) == off[1] >= 128

\* the fallback when no checkpoint was found: start at the first log block
fallbackStart(s) ==
    [s EXCEPT !.baseLSN = U64(LogFileHdrSize),
              !.currentLSN = U64(LogFileHdrSize),
              !.fileOff = U64(LogFileHdrSize),
              !.position = U64(LogFileHdrSize)]

\* startOffset: the checkpoint's offset, not below the file header
startOffset(cp) ==
    IF U64Less(cp.Offset, U64(LogFileHdrSize)) THEN U64(LogFileHdrSize) ELSE cp.Offset

\* the start at the checkpoint cp, before the Seek to startOffset is known to succeed
checkpointStart(s, cp) ==
    [s EXCEPT !.lastCheckpoint = cp,
              !.baseLSN = cp.CheckpointLSN,
              !.currentLSN = cp.CheckpointLSN,
              !.fileOff = startOffset(cp),
              !.position = startOffset(cp)]

\* the header built from the checkpoint, or the fallback header
newHeader(s) ==
    IF s.lastCheckpoint # NULL
    THEN [LogGroupID |-> s.lastCheckpoint.CheckpointNo,
          StartLSN |-> s.lastCheckpoint.CheckpointLSN,
          FileNo |-> 1, LastCheckpoint |-> 0, Format |-> 2]
    ELSE [LogGroupID |-> U64(1), StartLSN |-> s.baseLSN,
          FileNo |-> 1, LastCheckpoint |-> 0, Format |-> 2]

\* the end of ReadHeader: s is the reader at the call, s1 the reader
\* positioned at the start offset, found the result of findLatestCheckpoint
finishHeader(s, found, s1) ==
    IF found.err = NoError /\ SeekFails(s1.fileOff)
    THEN [s |-> [s1 EXCEPT !.fileOff = s.fileOff, !.position = s.position],
          header |-> NULL, err |-> "failed to seek to checkpoint offset",
          startOffset |-> s1.fileOff]
    ELSE [s |-> [s1 EXCEPT !.fileOff = LogFileHdrSize, !.position = LogFileHdrSize],
          header |-> newHeader(s1),
          err |-> NoError,
          startOffset |-> s1.fileOff]

positionReader(s, found) ==
    finishHeader(s, found,
                 IF found.err # NoError THEN fallbackStart(s) ELSE checkpointStart(s, found.cp))

\* ReadHeader: the reader after the call, the header returned (NULL on
\* error), the error, and the offset the file was first positioned at
ReadHeader(s) == positionReader(s, findLatestCheckpoint)

(***************************************************************************)
(* The files the reader is run on.                                         *)
(***************************************************************************)
MaxBlocks == 2      \* log blocks in a file

\* the two header bytes that decode to n
Hdr16(n) == <<n % 256, n \div 256>>

Block(dl, frg, d, fill) == [len |-> Hdr16(dl), frg |-> Hdr16(frg), data |-> d, fill |-> fill]

\* a REC_INSERT_8027 body: space 5, page 258 (2 bytes), 1 field, n_uniq 1,
\* one field descriptor, cursor offset 7, end_seg_len 12 (6 payload bytes)
InsertBody == <<9, 5, 129, 2, 1, 0, 1, 0, 4, 128, 7, 0, 12, 65, 66, 67, 68, 69, 70>>

\* a REC_INSERT_8027 body: space 5, page 1, no fields, n_uniq 0, cursor
\* offset 7, end_seg_len 2^63 in the 9-byte form (2^62 payload bytes)
HugeInsertBody == <<9, 5, 1, 0, 0, 0, 0, 7, 0, 255, 128, 0, 0, 0, 0, 0, 0, 0>>

BlockPool ==
    { Block(0, 0, <<31>>, 31),
      Block(5, 0, <<>>, 31),
      Block(13, 0, <<31>>, 0),
      Block(17, 0, <<0, 31, 200, 31, 31>>, 0),
      Block(24, 14, <<77, 1, 1, 10, 0, 1, 2, 3, 4, 31, 0, 31>>, 0),
      Block(28, 0, InsertBody, 0),
      Block(31, 0, InsertBody, 0),
      Block(508, 0, <<>>, 31),
      Block(600, 0, <<62, 100, 1, 7, 7>>, 0),
      Block(24, 0, <<13, 1, 0, 0, 0, 2, 0, 0, 0, 65, 66, 67>>, 0),
      Block(20, 0, <<9, 255, 1, 2, 3, 4, 5, 6>>, 0),
      Block(22, 0, <<20, 0, 0, 3, 0, 65, 66, 67, 31, 0>>, 0),
      Block(16, 700, <<31, 0, 0, 0>>, 0),
      Block(30, 0, HugeInsertBody, 0) }

RECURSIVE SeqsUpTo(_, _)
\* the sequences of at most n elements of S
SeqsUpTo(S, n) ==
    IF n = 0 THEN {<<>>}
    ELSE LET shorter == SeqsUpTo(S, n - 1)
         IN shorter \cup {Append(q, x) : q \in {t \in shorter : Len(t) = n - 1}, x \in S}

Checkpoint(no, lsn, off) == [no |-> no, lsn |-> lsn, off |-> off]
NoCheckpoint == Checkpoint(U64Zero, U64Zero, U64Zero)

CheckpointPool ==
    { NoCheckpoint,
      Checkpoint(U64(7), U64(5000), U64(100)),
      Checkpoint(U64(7), U64(7000), U64(3072)),
      Checkpoint(U64(9), U64(6000), U64(2560)),
      Checkpoint(<<1, 0, 0, 0, 0, 0, 0, 0>>, U64(8000), U64(2048)),
      Checkpoint(U64(3), U64(9000), <<128, 0, 0, 0, 0, 0, 0, 0>>) }

File(cp1, cp2, blocks, tail) ==
    [size |-> LogFileHdrSize + OSFileLogBlockSize * Len(blocks) + tail,
     cp1 |-> cp1, cp2 |-> cp2, blocks |-> blocks]

Files ==
    \* every block sequence, after a header with two valid checkpoints
    { File(Checkpoint(U64(7), U64(5000), U64(100)),
           Checkpoint(U64(9), U64(6000), U64(2560)), b, 0) :
        b \in SeqsUpTo(BlockPool, MaxBlocks) }
    \cup
    \* every pair of checkpoints, with and without a cut last block
    { File(cp1, cp2, b, tail) :
        cp1 \in CheckpointPool, cp2 \in CheckpointPool, tail \in {0, 100},
        b \in { <<>>, <<Block(17, 0, <<0, 31, 200, 31, 31>>, 0)>>,
                <<Block(0, 0, <<31>>, 31), Block(22, 0, <<20, 0, 0, 3, 0, 65, 66, 67, 31, 0>>, 0)>> } }
    \cup
    \* files cut inside the file header
    { [size |-> n, cp1 |-> cp, cp2 |-> cp, blocks |-> <<>>] :
        n \in {600, 1100}, cp \in CheckpointPool }

(***************************************************************************)
(* The reader's behaviours: Open, then ReadHeader, then ReadRecord calls.  *)
(***************************************************************************)
NoCall == [rec |-> NULL, err |-> NoError, fileOff |-> 0, from |-> 0, at |-> 0, skipped |-> <<>>,
           bytes |-> NULL, readErr |-> NoError]

IdleReader ==
    /\ file = NULL /\ r = NULL /\ phase = "idle" /\ header = NULL
    /\ last = NoCall /\ out = <<>>
IdleCodec == value = NULL /\ data = <<>> /\ parsed = NULL
IdleGroups == records = <<>> /\ before = <<>> /\ passes = 0
IdleLoad == kind = NULL /\ handle = NULL /\ cursor = NULL /\ ret = NULL
IdleApp == app = NULL

InitReader ==
    /\ mode = "reader" /\ IdleApp
    /\ file \in Files
    /\ r = NewMySQLRedoLogReader
    /\ phase = "opened"
    /\ header = [header |-> NULL, err |-> NoError, startOffset |-> NULL]
    /\ last = NoCall
    /\ out = <<>>
    /\ IdleCodec /\ IdleGroups /\ IdleLoad

DoReadHeader ==
    /\ mode = "reader" /\ phase = "opened"
    /\ LET res == ReadHeader(r)
       IN /\ r' = res.s
          /\ header' = [header |-> res.header, err |-> res.err, startOffset |-> res.startOffset]
          /\ phase' = IF res.err = NoError THEN "header" ELSE "failed"
    /\ UNCHANGED <<app, mode, file, last, out, value, data, parsed, records, before, passes,
                 kind, handle, cursor, ret>>

DoReadRecord ==
    /\ mode = "reader" /\ phase = "header"
    /\ LET res == ReadRecord(r)
       IN /\ r' = res.s
          /\ last' = [rec |-> res.rec, err |-> res.err, fileOff |-> res.fileOff,
                      from |-> res.from, at |-> res.at,
                      skipped |-> res.skipped, bytes |-> res.bytes, readErr |-> res.readErr]
          /\ out' = IF res.rec # NULL THEN Append(out, res.rec) ELSE out
          /\ phase' = IF res.err = "panic" THEN "panicked" ELSE phase
    /\ UNCHANGED <<app, mode, file, header, value, data, parsed, records, before, passes,
                 kind, handle, cursor, ret>>

Init == InitReader
Next == DoReadHeader \/ DoReadRecord
Spec == Init /\ [][Next]_vars

(***************************************************************************)
(* detectMultiRecordGroups (cmd/redolog-tool).  Indices count from 0 as in *)
(* the code; groupStart = -1 when no group is open.                        *)
(***************************************************************************)
\* markGroup flagging every record after the first as the end of the group
markGroupEveryEnd(recs, groupStart, i, groupID) ==
    [k \in 1..Len(recs) |->
        LET j == k - 1 IN
        IF j >= groupStart /\ j <= i
        THEN [recs[k] EXCEPT !.MultiRecordGroup = groupID,
                             !.IsGroupStart = IF j = groupStart THEN TRUE ELSE @,
                             !.IsGroupEnd = IF j # groupStart THEN TRUE ELSE @]
        ELSE recs[k]]

\* the inner loop that marks the records groupStart..i with groupID
\* markGroup adding the group number to the number a record already has
markGroupAdd(recs, groupStart, i, groupID) ==
    [k \in 1..Len(recs) |->
        LET j == k - 1 IN
        IF j >= groupStart /\ j <= i
        THEN [recs[k] EXCEPT !.MultiRecordGroup = @ + groupID,
                             !.IsGroupStart = IF j = groupStart THEN TRUE ELSE @,
                             !.IsGroupEnd = IF j # groupStart /\ j = i THEN TRUE ELSE @]
        ELSE recs[k]]

markGroup(recs, groupStart, i, groupID) ==
    [k \in 1..Len(recs) |->
        LET j == k - 1 IN
        IF j >= groupStart /\ j <= i
        THEN [recs[k] EXCEPT !.MultiRecordGroup = groupID,
                             !.IsGroupStart = IF j = groupStart THEN TRUE ELSE @,
                             !.IsGroupEnd = IF j # groupStart /\ j = i THEN TRUE ELSE @]
        ELSE recs[k]]

\* orphanEnd flagging the record as the end of a group
orphanEndFlagged(recs, i) ==
    [recs EXCEPT ![i + 1].MultiRecordGroup = 0, ![i + 1].IsGroupEnd = TRUE]

\* a MULTI_REC_END met while no group is open, at index i
orphanEnd(recs, i) == [recs EXCEPT ![i + 1].MultiRecordGroup = 0]

\* detectLoop that never increments the group counter
RECURSIVE detectLoopSameID(_, _, _, _)
detectLoopSameID(recs, i, groupID, groupStart) ==
    IF i >= Len(recs) THEN [recs |-> recs, groupStart |-> groupStart, groupID |-> groupID]
    ELSE IF recs[i + 1].Type = MLogMultiRecEnd
         THEN IF groupStart # -1
              THEN detectLoopSameID(markGroup(recs, groupStart, i, groupID + 1), i + 1, groupID, -1)
              ELSE detectLoopSameID(orphanEnd(recs, i), i + 1, groupID, groupStart)
         ELSE detectLoopSameID(recs, i + 1, groupID, IF groupStart = -1 THEN i ELSE groupStart)

RECURSIVE detectLoop(_, _, _, _)
detectLoop(recs, i, groupID, groupStart) ==
    IF i >= Len(recs) THEN [recs |-> recs, groupStart |-> groupStart, groupID |-> groupID]
    ELSE IF recs[i + 1].Type = MLogMultiRecEnd
         THEN IF groupStart # -1
              THEN detectLoop(markGroup(recs, groupStart, i, groupID + 1), i + 1, groupID + 1, -1)
              ELSE detectLoop(orphanEnd(recs, i), i + 1, groupID, groupStart)
         ELSE detectLoop(recs, i + 1, groupID, IF groupStart = -1 THEN i ELSE groupStart)

\* after the loop: the records of a group left open are in no group
closeTrailing(recs, groupStart) ==
    IF groupStart # -1
    THEN [k \in 1..Len(recs) |->
             IF k - 1 >= groupStart
             THEN [recs[k] EXCEPT !.MultiRecordGroup = 0] ELSE recs[k]]
    ELSE recs

closeAfter(done) == closeTrailing(done.recs, done.groupStart)

detectMultiRecordGroups(recs) == closeAfter(detectLoop(recs, 0, 0, -1))

MaxRecords == 6     \* records in a slice handed to the pass
MaxPasses == 2      \* calls of the pass on one slice

GroupTypes == {1, 9, MLogMultiRecEnd}

\* a record as a reader returns it: no group, no boundary flag
FreshRecord(type, lsn) ==
    [Type |-> type, LSN |-> lsn, Length |-> 1, MultiRecordGroup |-> 0,
     IsGroupStart |-> FALSE, IsGroupEnd |-> FALSE]

InitGroups ==
    /\ mode = "groups" /\ IdleApp
    /\ \E types \in SeqsUpTo(GroupTypes, MaxRecords) :
          records = [k \in 1..Len(types) |-> FreshRecord(types[k], 1000 + k)]
    /\ before = records
    /\ passes = 0
    /\ IdleReader /\ IdleCodec /\ IdleLoad

DoDetectGroups ==
    /\ mode = "groups" /\ passes < MaxPasses
    /\ records' = detectMultiRecordGroups(records)
    /\ passes' = passes + 1
    /\ UNCHANGED <<app, mode, file, r, phase, header, last, out, value, data, parsed, before,
                 kind, handle, cursor, ret>>

SpecGroups == InitGroups /\ [][DoDetectGroups]_vars

(***************************************************************************)
(* readDataAcrossBlocks called on a reader that has loaded the first block *)
(* of a file and stands at some cursor of it.                              *)
(***************************************************************************)
MaxAcrossBlocks == 3    \* log blocks in a file
MaxRead == 6            \* bytes asked of readDataAcrossBlocks

\* blocks with data regions of 3, 0, 2 and 496 bytes, and an empty block
AcrossPool ==
    { Block(15, 0, <<65, 66, 67>>, 0),
      Block(12, 0, <<90>>, 90),
      Block(14, 0, <<68, 69>>, 0),
      Block(508, 0, <<71, 72, 73>>, 74),
      Block(0, 0, <<75>>, 75) }

AcrossFiles ==
    { File(NoCheckpoint, NoCheckpoint, b, 0) :
        b \in SeqsUpTo(AcrossPool, MaxAcrossBlocks) \ {<<>>} }

\* the reader after ReadHeader and the load of the first block
firstBlockLoaded == readNextBlock(ReadHeader(NewMySQLRedoLogReader).s)

InitAcross ==
    /\ mode = "across" /\ IdleApp
    /\ file \in AcrossFiles
    /\ \E ld \in {firstBlockLoaded}, o \in 0..3 :
          /\ ld.err = NoError
          /\ o <= Len(ld.s.blockData)
          /\ r = [ld.s EXCEPT !.dataOffset = o]
    /\ phase = "loaded"
    /\ header = NULL
    /\ last = NoCall
    /\ out = <<>>
    /\ IdleCodec /\ IdleGroups /\ IdleLoad

DoReadAcross ==
    /\ mode = "across" /\ phase = "loaded"
    /\ \E n \in 1..MaxRead :
          LET res == readDataAcrossBlocks(r, n)
          IN /\ r' = res.s
             /\ last' = [bytes |-> res.bytes, err |-> res.err, length |-> n, start |-> r]
             /\ phase' = "read"
    /\ UNCHANGED <<app, mode, file, header, out, value, data, parsed, records, before, passes,
                 kind, handle, cursor, ret>>

SpecAcross == InitAcross /\ [][DoReadAcross]_vars

(***************************************************************************)
(* The fixture format: the writer of the test fixtures (package fixtures)  *)
(* and the flat reader (internal/reader).  A fixture file is the sequence  *)
(* of its bytes; uint32 fields are four bytes, most significant first.     *)
(***************************************************************************)
\* the uint32 of a natural below 2^31
U32(n) == <<(n \div 16777216) % 256, (n \div 65536) % 256, (n \div 256) % 256, n % 256>>
\* a uint32 below 2^31 as a natural (the lengths of the files of the model are)
U32Int(v) == ((v[1] * 256 + v[2]) * 256 + v[3]) * 256 + v[4]

\* binary.LittleEndian.PutUint64, PutUint32, PutUint16: the bytes written
PutUint64(v) == [i \in 1..8 |-> v[9 - i]]
PutUint32(v) == [i \in 1..4 |-> v[5 - i]]
PutUint16(n) == <<n % 256, (n \div 256) % 256>>

RECURSIVE Sum(_)
Sum(d) == IF d = <<>> THEN 0 ELSE Head(d) + Sum(Tail(d))
calculateChecksum(d) == U32(Sum(d))

LogTypeInsert == 1
LogTypeUpdate == 2
LogTypeCommit == 4

SampleRedoLogHeader ==
    [LogGroupID |-> U64(1), StartLSN |-> U64(1000), FileNo |-> U32(1),
     Created |-> U64(1724500800), LastCheckpoint |-> U64(5000), Format |-> U32(1)]

SampleRecord(type, length, lsn, seconds, trx, table, index, d, page, offset) ==
    [Type |-> type, Length |-> length, LSN |-> U64(lsn),
     Timestamp |-> U64(1724500800 + seconds), TransactionID |-> U64(trx),
     TableID |-> U32(table), IndexID |-> U32(index), Data |-> d,
     Checksum |-> calculateChecksum(d), SpaceID |-> U32(0), PageNo |-> U32(page),
     Offset |-> offset,
     MultiRecordGroup |-> 0, IsGroupStart |-> FALSE, IsGroupEnd |-> FALSE]

SampleInsertRecord ==
    SampleRecord(LogTypeInsert, 79, 1001, 1, 12345, 100, 1,
                 <<115, 97, 109, 112, 108, 101, 32, 105, 110, 115, 101, 114, 116, 32, 100, 97, 116, 97>>, 1, 128)
SampleUpdateRecord ==
    SampleRecord(LogTypeUpdate, 93, 1002, 2, 12345, 100, 1,
                 <<115, 97, 109, 112, 108, 101, 32, 117, 112, 100, 97, 116, 101, 32, 100, 97, 116, 97, 32, 98, 101, 102, 111, 114, 101, 124, 97, 102, 116, 101, 114>>,
                 1, 192)
SampleCommitRecord ==
    SampleRecord(LogTypeCommit, 67, 1003, 3, 12345, 0, 0, <<99, 111, 109, 109, 105, 116>>, 0, 0)

BinaryRedoLogHeader ==
    PutUint64(SampleRedoLogHeader.LogGroupID) \o PutUint64(SampleRedoLogHeader.StartLSN)
    \o PutUint32(SampleRedoLogHeader.FileNo) \o PutUint64(SampleRedoLogHeader.Created)
    \o PutUint64(SampleRedoLogHeader.LastCheckpoint) \o PutUint32(SampleRedoLogHeader.Format)
    \o [i \in 1..24 |-> 0]

BinaryLogRecord(record) ==
    LET headerSize == 1 + 4 + 8 + 8 + 8 + 4 + 4 + 4 + 4 + 2
        bufSize == Max(record.Length, headerSize + Len(record.Data) + 4)
    IN <<record.Type>> \o PutUint32(U32(bufSize))
       \o PutUint64(record.LSN) \o PutUint64(record.Timestamp) \o PutUint64(record.TransactionID)
       \o PutUint32(record.TableID) \o PutUint32(record.IndexID)
       \o PutUint32(record.SpaceID) \o PutUint32(record.PageNo) \o PutUint16(record.Offset)
       \o record.Data
       \o [i \in 1..(bufSize - 4 - headerSize - Len(record.Data)) |-> 0]
       \o PutUint32(record.Checksum)

\* the reader struct: the offset of its *os.File and the eof flag
NewRedoLogReader == [fileOff |-> 0, eof |-> FALSE]

FixtureHeaderSize == 64

\* the result of a fixture reader call
FixtureResult(s, rec, err) == [s |-> s, rec |-> rec, err |-> err]

fixtureReadHeader(s) ==
    LET n == ReadCount(file, 0, FixtureHeaderSize) IN
    IF n = 0 THEN [s |-> [s EXCEPT !.fileOff = 0], header |-> NULL, err |-> "failed to read header: EOF"]
    ELSE IF n < FixtureHeaderSize
    THEN [s |-> [s EXCEPT !.fileOff = n], header |-> NULL, err |-> "incomplete header read"]
    ELSE [s |-> [s EXCEPT !.fileOff = n],
          header |-> [LogGroupID |-> LittleEndianUint64(file.bytes, 0),
                      StartLSN |-> LittleEndianUint64(file.bytes, 8),
                      FileNo |-> LittleEndianUint32(file.bytes, 16),
                      Created |-> LittleEndianUint64(file.bytes, 20),
                      LastCheckpoint |-> LittleEndianUint64(file.bytes, 28),
                      Format |-> LittleEndianUint32(file.bytes, 36)],
          err |-> NoError]

\* the fixed fields decoded from remainingBytes; a slice shorter than the
\* 42 bytes of the fixed fields makes the slice expressions panic
fixtureParse(s, recordType, recordLength, remainingBytes) ==
    IF Len(remainingBytes) < 42 THEN FixtureResult(s, NULL, "panic")
    ELSE FixtureResult(s,
            [Type |-> recordType, Length |-> recordLength,
             LSN |-> LittleEndianUint64(remainingBytes, 0),
             Timestamp |-> LittleEndianUint64(remainingBytes, 8),
             TransactionID |-> LittleEndianUint64(remainingBytes, 16),
             TableID |-> LittleEndianUint32(remainingBytes, 24),
             IndexID |-> LittleEndianUint32(remainingBytes, 28),
             SpaceID |-> LittleEndianUint32(remainingBytes, 32),
             PageNo |-> LittleEndianUint32(remainingBytes, 36),
             Offset |-> LittleEndianUint16(remainingBytes, 40),
             Data |-> IF 42 <= Len(remainingBytes) - 4
                      THEN SubSeq(remainingBytes, 43, Len(remainingBytes) - 4) ELSE <<>>,
             Checksum |-> LittleEndianUint32(remainingBytes, Len(remainingBytes) - 4),
             MultiRecordGroup |-> 0, IsGroupStart |-> FALSE, IsGroupEnd |-> FALSE],
            NoError)

\* fixtureReadData taking the length to exclude the type byte
fixtureReadDataShort(s, recordType, recordLength) ==
    LET remainingSize == recordLength - 4
        n == ReadCount(file, s.fileOff, remainingSize)
    IN IF remainingSize <= 0 THEN FixtureResult(s, NULL, "invalid record length")
       ELSE IF n = 0 THEN FixtureResult(s, NULL, "failed to read record data: EOF")
       ELSE IF n < remainingSize
       THEN FixtureResult([s EXCEPT !.fileOff = @ + n], NULL, "incomplete record data read")
       ELSE fixtureParse([s EXCEPT !.fileOff = @ + n], recordType, recordLength,
                         SubSeq(file.bytes, s.fileOff + 1, s.fileOff + n))

\* after the type and the length are read: the rest of the record
fixtureReadData(s, recordType, recordLength) ==
    LET remainingSize == recordLength - 5
        n == ReadCount(file, s.fileOff, remainingSize)
    IN IF remainingSize <= 0 THEN FixtureResult(s, NULL, "invalid record length")
       ELSE IF n = 0 THEN FixtureResult(s, NULL, "failed to read record data: EOF")
       ELSE IF n < remainingSize
       THEN FixtureResult([s EXCEPT !.fileOff = @ + n], NULL, "incomplete record data read")
       ELSE fixtureParse([s EXCEPT !.fileOff = @ + n], recordType, recordLength,
                         SubSeq(file.bytes, s.fileOff + 1, s.fileOff + n))

\* after the type byte is read: the four bytes of the length
fixtureReadLength(s, recordType) ==
    LET n == ReadCount(file, s.fileOff, 4) IN
    IF n = 0 THEN FixtureResult(s, NULL, "failed to read record length: EOF")
    ELSE IF n < 4
    THEN FixtureResult([s EXCEPT !.fileOff = @ + n], NULL, "incomplete record length read")
    ELSE fixtureReadData([s EXCEPT !.fileOff = @ + 4], recordType,
                         U32Int(LittleEndianUint32(file.bytes, s.fileOff)))

\* redoLogReader.ReadRecord
fixtureReadRecord(s) ==
    IF ReadCount(file, s.fileOff, 1) = 0
    THEN FixtureResult([s EXCEPT !.eof = TRUE], NULL, "failed to read record type: EOF")
    ELSE fixtureReadLength([s EXCEPT !.fileOff = @ + 1], file.bytes[s.fileOff + 1])

\* redoLogReader.Seek (the offsets of the model are never negative)
fixtureSeek(s, offset) == [s EXCEPT !.fileOff = offset]

\* redoLogReader.IsEOF
fixtureIsEOF(s) == s.eof

(***************************************************************************)
(* The fixture reader's behaviours on the files the fixture writer makes:  *)
(* Open, ReadHeader, then ReadRecord and Seek calls.                       *)
(***************************************************************************)
MaxFixtureRecords == 3   \* records in a fixture file
MaxSeeks == 1            \* Seek calls in a behaviour

\* a record of the shortest form the writer produces: Length 0, no data
SampleShortRecord == SampleRecord(LogTypeCommit, 0, 1004, 4, 777, 0, 0, <<>>, 0, 0)

FixturePool == {SampleInsertRecord, SampleUpdateRecord, SampleCommitRecord, SampleShortRecord}

RECURSIVE WriteRecords(_)
\* the bytes CreateSampleLogFile writes after the header for the records recs
WriteRecords(recs) ==
    IF recs = <<>> THEN <<>> ELSE BinaryLogRecord(Head(recs)) \o WriteRecords(Tail(recs))

\* the file CreateSampleLogFile makes of recs; written is kept for reference
FixtureFile(recs) ==
    [size |-> FixtureHeaderSize + Len(WriteRecords(recs)),
     bytes |-> BinaryRedoLogHeader \o WriteRecords(recs),
     written |-> recs]

FixtureFiles == { FixtureFile(recs) : recs \in SeqsUpTo(FixturePool, MaxFixtureRecords) }

\* the byte offset at which record j of the file starts (j from 1)
RecordOffset(f, j) == FixtureHeaderSize + Len(WriteRecords(SubSeq(f.written, 1, j - 1)))

\* the latest call: op its name, calls the ReadRecord calls made so far, seeks
\* the Seek calls and repeated ReadHeader calls, sought the record a Seek that
\* came right before went to, sawEOF whether an IsEOF call has returned true
NoFixtureCall == [op |-> "none", rec |-> NULL, err |-> NoError, calls |-> 0, seeks |-> 0, sought |-> 0,
                  sawEOF |-> FALSE]

InitFixture ==
    /\ mode = "fixture" /\ IdleApp
    /\ file \in FixtureFiles
    /\ r = NewRedoLogReader
    /\ phase = "opened"
    /\ header = NULL
    /\ last = NoFixtureCall
    /\ out = <<>>
    /\ IdleCodec /\ IdleGroups /\ IdleLoad

\* ReadHeader, right after Open or again between ReadRecord calls
DoFixtureReadHeader ==
    /\ mode = "fixture"
    /\ phase = "opened" \/ (phase = "header" /\ last.seeks < MaxSeeks)
    /\ LET res == fixtureReadHeader(r)
       IN /\ r' = res.s
          /\ header' = [header |-> res.header, err |-> res.err]
          /\ phase' = IF res.err = NoError THEN "header" ELSE "failed"
          /\ last' = IF phase = "opened" THEN last
                     ELSE [last EXCEPT !.op = "ReadHeader", !.rec = NULL, !.err = res.err,
                                       !.seeks = @ + 1, !.sought = 0]
    /\ UNCHANGED <<app, mode, file, out, value, data, parsed, records, before, passes,
                 kind, handle, cursor, ret>>

DoFixtureReadRecord ==
    /\ mode = "fixture" /\ phase = "header" /\ last.calls <= Len(file.written) + 1
    /\ LET res == fixtureReadRecord(r)
       IN /\ r' = res.s
          /\ last' = [op |-> "ReadRecord", rec |-> res.rec, err |-> res.err,
                      calls |-> last.calls + 1, seeks |-> last.seeks,
                      sought |-> IF last.op = "Seek" THEN last.sought ELSE 0,
                      sawEOF |-> last.sawEOF]
          /\ out' = IF res.rec # NULL THEN Append(out, res.rec) ELSE out
          /\ phase' = IF res.err = "panic" THEN "panicked" ELSE phase
    /\ UNCHANGED <<app, mode, file, header, value, data, parsed, records, before, passes,
                 kind, handle, cursor, ret>>

DoFixtureSeek ==
    /\ mode = "fixture" /\ phase = "header" /\ last.seeks < MaxSeeks
    /\ \E j \in 1..Len(file.written) :
          /\ r' = fixtureSeek(r, RecordOffset(file, j))
          /\ last' = [op |-> "Seek", rec |-> NULL, err |-> NoError,
                      calls |-> last.calls, seeks |-> last.seeks + 1, sought |-> j,
                      sawEOF |-> last.sawEOF]
    /\ UNCHANGED <<app, mode, file, phase, header, out, value, data, parsed, records, before, passes,
                 kind, handle, cursor, ret>>

\* IsEOF: the reader is left as it is, the caller has its answer
DoFixtureIsEOF ==
    /\ mode = "fixture" /\ phase = "header"
    /\ last' = [last EXCEPT !.sawEOF = @ \/ fixtureIsEOF(r)]
    /\ UNCHANGED <<app, mode, file, r, phase, header, out, value, data, parsed, records, before, passes,
                 kind, handle, cursor, ret>>

SpecFixture ==
    InitFixture /\ [][DoFixtureReadHeader \/ DoFixtureReadRecord \/ DoFixtureSeek
                      \/ DoFixtureIsEOF]_vars

(***************************************************************************)
(* The fixture reader's behaviours on files whose first record declares    *)
(* any length: Open, ReadHeader, then ReadRecord calls.                    *)
(***************************************************************************)
MaxDeclared == 60        \* largest record length a file declares

\* a fixture file of the header and the bytes d
RawFile(d) == [size |-> FixtureHeaderSize + Len(d), bytes |-> BinaryRedoLogHeader \o d,
               written |-> <<>>]

\* the bytes of a record that declares the length len (below 256) and is
\* followed by n bytes
DeclaredRecord(len, n) == <<LogTypeInsert, len, 0, 0, 0>> \o [i \in 1..n |-> 0]

\* the length the first record of the fixture file f declares
DeclaredLength(f) == U32Int(LittleEndianUint32(f.bytes, FixtureHeaderSize + 1))

\* the header and one record of each declared length, whole, cut one byte
\* short, and with a byte after it
DeclaredFiles ==
    UNION { { RawFile(DeclaredRecord(len, n)) :
                n \in {0, Max(len - 6, 0), Max(len - 5, 0), Max(len - 4, 0)} } :
            len \in 0..MaxDeclared }

InitDeclared ==
    /\ mode = "fixture" /\ IdleApp
    /\ file \in DeclaredFiles
    /\ r = NewRedoLogReader
    /\ phase = "opened"
    /\ header = NULL
    /\ last = NoFixtureCall
    /\ out = <<>>
    /\ IdleCodec /\ IdleGroups /\ IdleLoad

SpecDeclared == InitDeclared /\ [][DoFixtureReadHeader \/ DoFixtureReadRecord]_vars

(***************************************************************************)
(* loadRedoLogData (cmd/redolog-tool): createReader, the deferred Close,   *)
(* Open, ReadHeader, the ReadRecord loop and the grouping pass.  handle is *)
(* the *os.File of the reader: "nil" until Open succeeds.  The two loops   *)
(* run LoopChunk iterations in a step.                                     *)
(***************************************************************************)
maxRecords == 10000
sizeThreshold == 1000000
LoopChunk == 40     \* iterations of a loop of loadRedoLogData in one step

\* os.Stat(filename): NULL when it fails
Stat(f) == IF f = NULL THEN NULL ELSE [Size |-> f.size]

\* createReader with the threshold itself on the MySQL side
createReaderFromThreshold(info) ==
    IF info # NULL /\ info.Size >= sizeThreshold THEN "mysql" ELSE "fixture"

\* createReader: the reader type chosen for the Stat result info
createReader(info) ==
    IF info # NULL /\ info.Size > sizeThreshold THEN "mysql" ELSE "fixture"

newReader(k) == IF k = "mysql" THEN NewMySQLRedoLogReader ELSE NewRedoLogReader

\* Close closing the file only when there is none
CloseWhenNil(h) == IF h = "nil" THEN "closed" ELSE h

\* Close of either reader: the file is closed when there is one
Close(h) == IF h # "nil" THEN "closed" ELSE h

\* MySQLRedoLogReader.IsEOF: one byte read ahead, the offset restored
mysqlIsEOF(h, s) == IF h = "nil" THEN TRUE ELSE ReadCount(file, s.fileOff, 1) = 0

isEOF(k, h, s) == IF k = "mysql" THEN mysqlIsEOF(h, s) ELSE fixtureIsEOF(s)

headerResult(res) == [s |-> res.s, header |-> res.header, err |-> res.err]
readHeader(k, s) ==
    IF k = "mysql" THEN headerResult(ReadHeader(s)) ELSE fixtureReadHeader(s)

recordResult(res) == FixtureResult(res.s, res.rec, res.err)
readRecord(k, s) ==
    IF k = "mysql" THEN recordResult(ReadRecord(s)) ELSE fixtureReadRecord(s)

\* the state of the record loop: stop says why it ended, "more" when it has not
Stopped(s, recs, stop, err) == [s |-> s, records |-> recs, stop |-> stop, err |-> err]

RECURSIVE loadLoop(_, _, _, _, _)

\* the loop body with the end-of-log message taken for a failure
loadAfterReadNoEndOfLog(k, h, res, recs, n) ==
    IF res.err = "panic" THEN Stopped(res.s, recs, "panic", res.err)
    ELSE IF res.err # NoError
    THEN IF isEOF(k, h, res.s) THEN Stopped(res.s, recs, "eof", res.err)
         ELSE Stopped(res.s, recs, "error", res.err)
    ELSE loadLoop(k, h, res.s, Append(recs, res.rec), n - 1)

\* the loop body after ReadRecord returned res
loadAfterRead(k, h, res, recs, n) ==
    IF res.err = "panic" THEN Stopped(res.s, recs, "panic", res.err)
    ELSE IF res.err # NoError
    THEN IF isEOF(k, h, res.s) THEN Stopped(res.s, recs, "eof", res.err)
         ELSE IF res.err = "end of valid log data" THEN Stopped(res.s, recs, "end", res.err)
         ELSE Stopped(res.s, recs, "error", res.err)
    ELSE loadLoop(k, h, res.s, Append(recs, res.rec), n - 1)

\* for recordCount < maxRecords, at most n iterations
loadLoop(k, h, s, recs, n) ==
    IF ~(Len(recs) < maxRecords) THEN Stopped(s, recs, "cap", NoError)
    ELSE IF n = 0 THEN Stopped(s, recs, "more", NoError)
    ELSE loadAfterRead(k, h, readRecord(k, s), recs, n)

\* the grouping pass from record c.i on, at most n records of it
groupChunk(recs, c, upto) ==
    detectLoop(SubSeq(recs, 1, upto), c.i, c.groupID, c.groupStart)

Failed(msg) == [records |-> NULL, header |-> NULL, err |-> msg]

(***************************************************************************)
(* The files loadRedoLogData is run on: no file, fixture files whole and   *)
(* cut, and MySQL files of more than 1,000,000 bytes.                      *)
(***************************************************************************)
\* the first n bytes of the fixture file f
Cut(f, n) == [size |-> n, bytes |-> SubSeq(f.bytes, 1, n), written |-> f.written]

\* the fewest log blocks that make a file larger than the threshold
LargeCount == (sizeThreshold - LogFileHdrSize) \div OSFileLogBlockSize + 1

\* a MySQL file of the blocks listed and count copies of the block more
LargeFile(cp1, cp2, blocks, more, count) ==
    [size |-> LogFileHdrSize + OSFileLogBlockSize * (Len(blocks) + count),
     cp1 |-> cp1, cp2 |-> cp2, blocks |-> blocks, more |-> more]

\* a block of five one-byte records, a block never written, a block of a
\* record of type 20 and a MULTI_REC_END
OnesBlock == Block(18, 0, <<1, 1, 1, 1, 1, 1>>, 0)
ZeroBlock == Block(0, 0, <<>>, 0)
GroupBlock == Block(22, 0, <<20, 0, 0, 3, 0, 65, 66, 67, 31, 0>>, 0)

SampleFile == FixtureFile(<<SampleInsertRecord, SampleUpdateRecord, SampleCommitRecord>>)

LoadFiles ==
    { NULL, SampleFile, FixtureFile(<<>>), FixtureFile(<<SampleCommitRecord, SampleShortRecord>>),
      RawFile(<<1, 3, 0, 0, 0>>),
      RawFile(<<1, 20, 0, 0, 0>> \o [i \in 1..15 |-> 0]) }
    \cup { Cut(SampleFile, n) : n \in {0, 32, 65, 67, 100, 64 + 79, 64 + 79 + 1, 302} }
    \cup { LargeFile(Checkpoint(U64(7), U64(5000), U64(100)), NoCheckpoint,
                     b, ZeroBlock, LargeCount) :
             b \in {<<>>, <<GroupBlock>>, <<GroupBlock, OnesBlock, GroupBlock>>} }
    \cup { LargeFile(NoCheckpoint, NoCheckpoint, <<GroupBlock>>, OnesBlock, n) :
             n \in {LargeCount, LargeCount + 60} }

InitLoad ==
    /\ mode = "load" /\ IdleApp
    /\ file \in LoadFiles
    /\ r = NULL /\ kind = NULL /\ handle = "nil"
    /\ phase = "call"
    /\ header = NULL /\ last = NULL /\ out = <<>>
    /\ cursor = NULL /\ ret = NULL
    /\ IdleCodec /\ IdleGroups

\* a return of loadRedoLogData: the deferred Close runs
Return(result) ==
    /\ ret' = result
    /\ handle' = Close(handle)
    /\ phase' = "returned"

\* createReader, and the Close deferred
DoCreateReader ==
    /\ mode = "load" /\ phase = "call"
    /\ kind' = createReader(Stat(file))
    /\ r' = newReader(kind')
    /\ phase' = "created"
    /\ UNCHANGED <<app, mode, file, header, last, out, value, data, parsed, records, before, passes,
                 handle, cursor, ret>>

\* Open: os.Open succeeds or fails; it fails when there is no file
DoOpen ==
    /\ mode = "load" /\ phase = "created"
    /\ \E ok \in BOOLEAN :
          /\ file = NULL => ~ok
          /\ IF ok THEN handle' = "open" /\ phase' = "opened" /\ ret' = ret
                   ELSE Return(Failed("failed to open file"))
    /\ UNCHANGED <<app, mode, file, r, header, last, out, value, data, parsed, records, before, passes,
                 kind, cursor>>

DoLoadHeader ==
    /\ mode = "load" /\ phase = "opened"
    /\ \E res \in {readHeader(kind, r)} :
          /\ r' = res.s
          /\ IF res.err # NoError
             THEN Return(Failed("failed to read header")) /\ header' = header
             ELSE header' = res.header /\ phase' = "loop" /\ UNCHANGED <<handle, ret>>
    /\ UNCHANGED <<app, mode, file, last, out, value, data, parsed, records, before, passes,
                 kind, cursor>>

\* LoopChunk iterations of the record loop; last keeps how it ended, out the
\* records as ReadRecord returned them
DoLoadRecords ==
    /\ mode = "load" /\ phase = "loop"
    /\ \E res \in {loadLoop(kind, handle, r, records, LoopChunk)} :
          /\ r' = res.s
          /\ records' = res.records
          /\ out' = res.records
          /\ last' = [stop |-> res.stop, err |-> res.err]
          /\ IF res.stop = "error"
             THEN Return(Failed("failed to read record")) /\ cursor' = cursor
             ELSE IF res.stop = "panic"
             THEN handle' = Close(handle) /\ phase' = "panicked" /\ UNCHANGED <<cursor, ret>>
             ELSE IF res.stop = "more"
             THEN UNCHANGED <<handle, phase, cursor, ret>>
             ELSE /\ cursor' = [i |-> 0, groupID |-> 0, groupStart |-> -1]
                  /\ phase' = "group"
                  /\ UNCHANGED <<handle, ret>>
    /\ UNCHANGED <<app, mode, file, header, value, data, parsed, before, passes, kind>>

\* LoopChunk iterations of detectMultiRecordGroups, and the return after it
DoGroupRecords ==
    /\ mode = "load" /\ phase = "group"
    /\ \E upto \in {Min(Len(records), cursor.i + LoopChunk)} :
       \E done \in {groupChunk(records, cursor, upto)} :
          /\ cursor' = [i |-> upto, groupID |-> done.groupID, groupStart |-> done.groupStart]
          /\ IF upto < Len(records)
             THEN /\ records' = done.recs \o SubSeq(records, upto + 1, Len(records))
                  /\ UNCHANGED <<handle, phase, ret>>
             ELSE /\ records' = closeAfter(done)
                  /\ Return([records |-> records', header |-> header, err |-> NoError])
    /\ UNCHANGED <<app, mode, file, r, header, last, out, value, data, parsed, before, passes, kind>>

SpecLoad ==
    InitLoad /\ [][DoCreateReader \/ DoOpen \/ DoLoadHeader \/ DoLoadRecords \/ DoGroupRecords]_vars

(***************************************************************************)
(* getOperationType and createReader (cmd/redolog-tool) as functions of    *)
(* their inputs: value is the argument, parsed the result ("" before).     *)
(***************************************************************************)
\* getOperationType without MLOG_REC_SEC_DELETE_MARK among the deletes
getOperationTypeNoSecMark(recordType) ==
    IF recordType \in {9, 38} THEN "insert"
    ELSE IF recordType \in {13, 41} THEN "update"
    ELSE IF recordType \in {10, 14, 15, 16, 39, 40, 42, 43, 44} THEN "delete"
    ELSE "other"

getOperationType(recordType) ==
    IF recordType \in {9, 38} THEN "insert"
    ELSE IF recordType \in {13, 41} THEN "update"
    ELSE IF recordType \in {10, 11, 14, 15, 16, 39, 40, 42, 43, 44} THEN "delete"
    ELSE "other"

InitOperationType ==
    /\ mode = "optype" /\ IdleApp
    /\ value \in Byte
    /\ data = <<>> /\ parsed = ""
    /\ IdleReader /\ IdleGroups /\ IdleLoad

DoGetOperationType ==
    /\ mode = "optype" /\ parsed = ""
    /\ parsed' = getOperationType(value)
    /\ UNCHANGED <<app, mode, file, r, phase, header, last, out, value, data, records, before, passes,
                 kind, handle, cursor, ret>>

SpecOperationType == InitOperationType /\ [][DoGetOperationType]_vars

SizeSpan == 60      \* sizes tried on either side of the threshold

\* what os.Stat can answer: an error, or a size
StatResults ==
    {NULL} \cup { [Size |-> n] : n \in {0, 64, 303}
                                     \cup ((sizeThreshold - SizeSpan)..(sizeThreshold + SizeSpan)) }

InitCreateReader ==
    /\ mode = "create" /\ IdleApp
    /\ value \in StatResults
    /\ data = <<>> /\ parsed = ""
    /\ IdleReader /\ IdleGroups /\ IdleLoad

DoCreateReaderOnly ==
    /\ mode = "create" /\ parsed = ""
    /\ parsed' = createReader(value)
    /\ UNCHANGED <<app, mode, file, r, phase, header, last, out, value, data, records, before, passes,
                 kind, handle, cursor, ret>>

SpecCreateReader == InitCreateReader /\ [][DoCreateReaderOnly]_vars

(***************************************************************************)
(* The record list of the terminal interface: RedoLogApp's filters and     *)
(* search.  Strings are sequences of one-character strings; the widgets    *)
(* (list, panes, footer) hold no field the filters read and are left out.  *)
(***************************************************************************)
MaxAppRecords == 2  \* records handed to NewRedoLogApp

UpperCase == <<"A", "B", "C", "D", "E", "F", "G", "H", "I", "J", "K", "L", "M",
               "N", "O", "P", "Q", "R", "S", "T", "U", "V", "W", "X", "Y", "Z">>
LowerCase == <<"a", "b", "c", "d", "e", "f", "g", "h", "i", "j", "k", "l", "m",
               "n", "o", "p", "q", "r", "s", "t", "u", "v", "w", "x", "y", "z">>
DecimalDigit == <<"0", "1", "2", "3", "4", "5", "6", "7", "8", "9">>

\* unicode.ToLower on the upper-case letters
LowerOf == [c \in {UpperCase[u] : u \in 1..26} |-> LowerCase[CHOOSE u \in 1..26 : UpperCase[u] = c]]

\* strings.ToLower
ToLower(s) == [k \in 1..Len(s) |-> IF s[k] \in DOMAIN LowerOf THEN LowerOf[s[k]] ELSE s[k]]

\* strings.Contains
Contains(s, substr) ==
    \E k \in 0..(Len(s) - Len(substr)) : \A j \in 1..Len(substr) : s[k + j] = substr[j]

\* fmt.Sprintf("%d", n) of an unsigned n
RECURSIVE Sprintf(_)
Sprintf(n) ==
    IF n < 10 THEN <<DecimalDigit[n + 1]>>
    ELSE Append(Sprintf(n \div 10), DecimalDigit[(n % 10) + 1])

\* LogType.String, for the types the record list is built from
String(lt) ==
    IF lt = 9 THEN <<"I", "N", "S", "E", "R", "T">>
    ELSE IF lt = 13 THEN <<"U", "P", "D", "A", "T", "E">>
    ELSE IF lt = 14 THEN <<"D", "E", "L", "E", "T", "E">>
    ELSE IF lt = 1 THEN <<"1", "B", "Y", "T", "E">>
    ELSE <<"M", "L", "O", "G", "_">> \o Sprintf(lt)

\* updateFilteredRecords that tests TableID alone for the Table ID 0 filter
RECURSIVE filterFromTableOnly(_, _, _)
filterFromTableOnly(a, i, acc) ==
    IF i >= Len(a.records) THEN acc
    ELSE IF ~a.showTableID0 /\ a.records[i + 1].TableID = 0
    THEN filterFromTableOnly(a, i + 1, acc)
    ELSE IF a.operationFilter # "all" /\ a.operationFilter # ""
            /\ getOperationType(a.records[i + 1].Type) # a.operationFilter
    THEN filterFromTableOnly(a, i + 1, acc)
    ELSE filterFromTableOnly(a, i + 1,
            [filteredRecords |-> Append(acc.filteredRecords, a.records[i + 1]),
             recordIndices |-> Append(acc.recordIndices, i)])

\* the loop of updateFilteredRecords from index i on; indices count from 0
RECURSIVE filterFrom(_, _, _)
filterFrom(a, i, acc) ==
    IF i >= Len(a.records) THEN acc
    ELSE IF ~a.showTableID0 /\ a.records[i + 1].TableID = 0 /\ a.records[i + 1].SpaceID = 0
    THEN filterFrom(a, i + 1, acc)
    ELSE IF a.operationFilter # "all" /\ a.operationFilter # ""
            /\ getOperationType(a.records[i + 1].Type) # a.operationFilter
    THEN filterFrom(a, i + 1, acc)
    ELSE filterFrom(a, i + 1,
            [filteredRecords |-> Append(acc.filteredRecords, a.records[i + 1]),
             recordIndices |-> Append(acc.recordIndices, i)])

updateFilteredRecords(a) ==
    [a EXCEPT !.filteredRecords = filterFrom(a, 0, [filteredRecords |-> <<>>, recordIndices |-> <<>>]).filteredRecords,
              !.recordIndices = filterFrom(a, 0, [filteredRecords |-> <<>>, recordIndices |-> <<>>]).recordIndices]

NewRedoLogApp(recs) ==
    updateFilteredRecords(
        [records |-> recs, showTableID0 |-> TRUE, operationFilter |-> "all",
         filteredRecords |-> <<>>, recordIndices |-> <<>>,
         searchTerm |-> <<>>, searchMatches |-> <<>>, currentSearchIndex |-> 0])

toggleTableID0Filter(a) == updateFilteredRecords([a EXCEPT !.showTableID0 = ~a.showTableID0])

toggleOperationFilter(a, operation) ==
    updateFilteredRecords(
        [a EXCEPT !.operationFilter = IF a.operationFilter = operation THEN "all" ELSE operation])

\* the record at original index recordIndex is in the filtered view
inFilteredView(a, recordIndex) ==
    \E k \in 1..Len(a.recordIndices) : a.recordIndices[k] = recordIndex

\* goToSearchResult that shows everything without refreshing the view
goToSearchResultStale(a, matchIndex) ==
    IF matchIndex >= Len(a.searchMatches) THEN a
    ELSE IF inFilteredView(a, a.searchMatches[matchIndex + 1]) THEN a
    ELSE [a EXCEPT !.showTableID0 = TRUE, !.operationFilter = "all"]

goToSearchResult(a, matchIndex) ==
    IF matchIndex >= Len(a.searchMatches) THEN a
    ELSE IF inFilteredView(a, a.searchMatches[matchIndex + 1]) THEN a
    ELSE updateFilteredRecords([a EXCEPT !.showTableID0 = TRUE, !.operationFilter = "all"])

\* the condition under which performSearch appends index i to searchMatches
matchesSearch(record, searchTerm) ==
    \/ Contains(ToLower(record.Data), ToLower(searchTerm))
    \/ Contains(ToLower(Sprintf(record.LSN)), ToLower(searchTerm))
    \/ Contains(ToLower(String(record.Type)), ToLower(searchTerm))
    \/ Contains(ToLower(Sprintf(record.TableID)), ToLower(searchTerm))
    \/ Contains(ToLower(Sprintf(record.SpaceID)), ToLower(searchTerm))

RECURSIVE searchFrom(_, _, _, _)
searchFrom(recs, searchTerm, i, acc) ==
    IF i >= Len(recs) THEN acc
    ELSE searchFrom(recs, searchTerm, i + 1,
            IF matchesSearch(recs[i + 1], searchTerm) THEN Append(acc, i) ELSE acc)

performSearch(a, searchTerm) ==
    IF searchTerm = <<>> THEN a
    ELSE goToSearchResult(
            [a EXCEPT !.searchTerm = searchTerm,
                      !.searchMatches = searchFrom(a.records, searchTerm, 0, <<>>),
                      !.currentSearchIndex = 0], 0)

nextSearchResult(a) ==
    IF Len(a.searchMatches) = 0 THEN a
    ELSE goToSearchResult(
            [a EXCEPT !.currentSearchIndex = (a.currentSearchIndex + 1) % Len(a.searchMatches)],
            (a.currentSearchIndex + 1) % Len(a.searchMatches))

prevSearchResult(a) ==
    IF Len(a.searchMatches) = 0 THEN a
    ELSE goToSearchResult(
            [a EXCEPT !.currentSearchIndex =
                        (a.currentSearchIndex - 1 + Len(a.searchMatches)) % Len(a.searchMatches)],
            (a.currentSearchIndex - 1 + Len(a.searchMatches)) % Len(a.searchMatches))

\* the records the interface is started on: type, table and space vary, the
\* LSN follows the position
AppRecordShapes ==
    { [Type |-> 9, TableID |-> 0, SpaceID |-> 0, Data |-> <<"a", "b">>],
      [Type |-> 9, TableID |-> 5, SpaceID |-> 0, Data |-> <<>>],
      [Type |-> 13, TableID |-> 0, SpaceID |-> 3, Data |-> <<"Z">>],
      [Type |-> 14, TableID |-> 5, SpaceID |-> 2, Data |-> <<"a">>],
      [Type |-> 1, TableID |-> 5, SpaceID |-> 0, Data |-> <<>>] }

AppRecord(shape, lsn) ==
    [Type |-> shape.Type, LSN |-> lsn, TableID |-> shape.TableID, SpaceID |-> shape.SpaceID,
     Data |-> shape.Data]

\* what the user types into the search field
SearchTerms ==
    { <<>>, <<"i", "n", "s">>, <<"D", "E", "L">>, <<"5">>, <<"z">>, <<"1", "0">> }

\* the keys that toggle an operation filter
OperationKeys == {"insert", "update", "delete"}

\* the handler that ran last, and whether it changed the filter settings
NoHandler == [op |-> "NewRedoLogApp", filters |-> FALSE]

Handled(op, a) ==
    [op |-> op,
     filters |-> (a.showTableID0 # app.showTableID0 \/ a.operationFilter # app.operationFilter)]

InitApp ==
    /\ mode = "app"
    /\ \E shapes \in SeqsUpTo(AppRecordShapes, MaxAppRecords) :
          app = NewRedoLogApp([k \in 1..Len(shapes) |-> AppRecord(shapes[k], 100 + k)])
    /\ file = NULL /\ r = NULL /\ phase = "idle" /\ header = NULL
    /\ last = NoHandler /\ out = <<>>
    /\ IdleCodec /\ IdleGroups /\ IdleLoad

DoToggleTableID0Filter ==
    /\ mode = "app"
    /\ app' = toggleTableID0Filter(app)
    /\ last' = Handled("toggleTableID0Filter", app')
    /\ UNCHANGED <<mode, file, r, phase, header, out, value, data, parsed, records, before,
                 passes, kind, handle, cursor, ret>>

DoToggleOperationFilter ==
    /\ mode = "app"
    /\ \E operation \in OperationKeys : app' = toggleOperationFilter(app, operation)
    /\ last' = Handled("toggleOperationFilter", app')
    /\ UNCHANGED <<mode, file, r, phase, header, out, value, data, parsed, records, before,
                 passes, kind, handle, cursor, ret>>

DoPerformSearch ==
    /\ mode = "app"
    /\ \E searchTerm \in SearchTerms : app' = performSearch(app, searchTerm)
    /\ last' = Handled("performSearch", app')
    /\ UNCHANGED <<mode, file, r, phase, header, out, value, data, parsed, records, before,
                 passes, kind, handle, cursor, ret>>

DoNextSearchResult ==
    /\ mode = "app"
    /\ app' = nextSearchResult(app)
    /\ last' = Handled("nextSearchResult", app')
    /\ UNCHANGED <<mode, file, r, phase, header, out, value, data, parsed, records, before,
                 passes, kind, handle, cursor, ret>>

DoPrevSearchResult ==
    /\ mode = "app"
    /\ app' = prevSearchResult(app)
    /\ last' = Handled("prevSearchResult", app')
    /\ UNCHANGED <<mode, file, r, phase, header, out, value, data, parsed, records, before,
                 passes, kind, handle, cursor, ret>>

SpecApp ==
    InitApp /\ [][DoToggleTableID0Filter \/ DoToggleOperationFilter \/ DoPerformSearch
                  \/ DoNextSearchResult \/ DoPrevSearchResult]_vars

\* the record passes the Table ID 0 filter and the operation filter now set
PassesFilters(a, record) ==
    /\ a.showTableID0 \/ record.TableID # 0 \/ record.SpaceID # 0
    /\ a.operationFilter \in {"all", ""} \/ getOperationType(record.Type) = a.operationFilter

\* C30: after any sequence of filter toggles, searches and search-result
\* jumps, recordIndices is strictly increasing and as long as filteredRecords,
\* filteredRecords[i] is records[recordIndices[i]], and the view holds exactly
\* the records that pass the operation filter and the Table ID 0 filter now set.
C30_FilteredViewConsistent ==
    mode = "app" =>
        /\ Len(app.recordIndices) = Len(app.filteredRecords)
        /\ \A k \in 1..(Len(app.recordIndices) - 1) : app.recordIndices[k] < app.recordIndices[k + 1]
        /\ \A k \in 1..Len(app.recordIndices) :
              /\ app.recordIndices[k] \in 0..(Len(app.records) - 1)
              /\ app.filteredRecords[k] = app.records[app.recordIndices[k] + 1]
        /\ \A i \in 0..(Len(app.records) - 1) :
              inFilteredView(app, i) <=> PassesFilters(app, app.records[i + 1])

\* a jump to the next match found it outside the view, hidden by the
\* operation filter, and showed everything again
C30_Witness ==
    /\ mode = "app" /\ last.op = "nextSearchResult" /\ last.filters
    /\ app.showTableID0 /\ app.operationFilter = "all"
    /\ app.currentSearchIndex = 1 /\ Len(app.searchMatches) = 2
    /\ Len(app.filteredRecords) = 2

(***************************************************************************)
(* Properties of the MySQL block reader (Spec).                            *)
(***************************************************************************)
\* C1: the LSN of every record ReadRecord returns is strictly greater than
\* the LSN of the record it returned before.
C1_LSNStrictlyIncreasing ==
    \A k \in 2..Len(out) : out[k].LSN > out[k - 1].LSN

\* three records or more, the last from a later block than the first
C1_Witness ==
    /\ Len(out) >= 3
    /\ out[Len(out)].LSN > out[1].LSN + OSFileLogBlockSize

\* the checkpoint a checkpoint block of the file decodes to
Stored(cp) ==
    [CheckpointNo |-> cp.no, CheckpointLSN |-> cp.lsn, Offset |-> cp.off,
     IsValid |-> cp.no # U64Zero]

\* C5: with both checkpoint blocks in the file, ReadHeader selects the block
\* with the larger sequence number when both numbers are above 0, the one
\* above 0 when only one is, and none when both are 0; in that last case it
\* returns a header with start LSN 2048 and no error.
C5_LatestCheckpoint ==
    (phase # "opened" /\ file.size >= LogFileHdrSize) =>
        LET a == file.cp1.no
            b == file.cp2.no
            selected == r.lastCheckpoint
        IN /\ (a # U64Zero /\ b # U64Zero) =>
                  /\ selected \in {Stored(file.cp1), Stored(file.cp2)}
                  /\ selected.CheckpointNo = (IF U64Less(a, b) THEN b ELSE a)
           /\ (a # U64Zero /\ b = U64Zero) => selected = Stored(file.cp1)
           /\ (a = U64Zero /\ b # U64Zero) => selected = Stored(file.cp2)
           /\ (a = U64Zero /\ b = U64Zero) =>
                  /\ selected = NULL
                  /\ phase = "header"
                  /\ header.err = NoError
                  /\ header.header.StartLSN = U64(LogFileHdrSize)

\* the second block holds the larger number, above 2^32, and was selected
C5_Witness ==
    /\ phase = "header" /\ file.size >= LogFileHdrSize
    /\ file.cp1.no = U64(9) /\ file.cp2.no[1] = 1
    /\ r.lastCheckpoint = Stored(file.cp2)

\* C6: once ReadHeader has selected a checkpoint, the file is positioned at
\* the larger of the checkpoint's offset and 2048 for the first block the
\* next ReadRecord loads, and the start LSN returned is the checkpoint's.
C6_StartsAtCheckpointOffset ==
    (phase = "header" /\ r.lastCheckpoint # NULL /\ last = NoCall) =>
        /\ U64(r.fileOff) = (IF U64Less(r.lastCheckpoint.Offset, U64(LogFileHdrSize))
                             THEN U64(LogFileHdrSize) ELSE r.lastCheckpoint.Offset)
        /\ header.header.StartLSN = r.lastCheckpoint.CheckpointLSN

\* C9: every record returned has a type in 1..76; the bytes the cursor
\* passed over before the type byte of the record are all 0 or above 76, and
\* the cursor moved one byte for each of them.
C9_ValidTypesOnly ==
    /\ \A k \in 1..Len(out) : out[k].Type >= 1 /\ out[k].Type <= 76
    /\ last.rec # NULL =>
          /\ \A i \in 1..Len(last.skipped) : last.skipped[i] = 0 \/ last.skipped[i] > 76
          /\ last.at - last.from = Len(last.skipped)

\* a record returned after the cursor stepped over the byte 200
C9_Witness ==
    /\ last.rec # NULL
    /\ last.skipped = <<200>>
    /\ last.at = last.from + 1

\* C10: after a block with a data length above 0 was loaded, the bytes the
\* dispatcher and the parsers work on are the block's bytes 12 up to, not
\* including, the smaller of the data length and 508, and the cursor stays
\* within them.
C10_DataRegionOnly ==
    (r # NULL /\ r.currentBlock.DataLen > 0) =>
        /\ r.blockData = SubSeq(r.blockBytes, LogBlockHdrSize + 1,
                                Min(r.currentBlock.DataLen, 508))
        /\ r.dataOffset <= Len(r.blockData)

\* a record read from a block whose data length field is above 508
C10_Witness ==
    /\ r # NULL /\ r.currentBlock.DataLen > 508
    /\ Len(r.blockData) = LogBlockDataSize
    /\ last.rec # NULL /\ last.rec.Type = 62

(***************************************************************************)
(* Properties of readDataAcrossBlocks (SpecAcross).                        *)
(***************************************************************************)
\* the data length of the block described by b, as the reader decodes it
DataLenOf(b) == b.len[1] + 256 * b.len[2]
\* the data region of the block described by b: its bytes 12 up to the
\* smaller of the data length and 508
RegionOf(b) ==
    [i \in 1..(Max(Min(DataLenOf(b), 508), LogBlockHdrSize) - LogBlockHdrSize) |->
        IF i <= Len(b.data) THEN b.data[i] ELSE b.fill]
\* the data regions of the blocks k, k + 1, ... of the file, one after the
\* other, up to the end of the file or a block of data length 0
RECURSIVE RegionsFrom(_)
RegionsFrom(k) ==
    IF k > Len(file.blocks) \/ DataLenOf(file.blocks[k]) = 0 THEN <<>>
    ELSE RegionOf(file.blocks[k]) \o RegionsFrom(k + 1)
\* the number of blocks the reader s has read
BlocksRead(s) == (s.fileOff - LogFileHdrSize) \div OSFileLogBlockSize
\* the bytes of the stream from the cursor of the reader s on
StreamFrom(s) ==
    SubSeq(RegionOf(file.blocks[BlocksRead(s)]), s.dataOffset + 1,
           Len(RegionOf(file.blocks[BlocksRead(s)])))
    \o RegionsFrom(BlocksRead(s) + 1)
\* the bytes left in the data region the reader s stands in
LeftInRegion(s) == Len(RegionOf(file.blocks[BlocksRead(s)])) - s.dataOffset

\* C11: a read of n bytes that the current data region cannot supply returns
\* the rest of the region followed by the leading bytes of the data regions
\* of the following blocks, n bytes in all, no header or trailer byte among
\* them, whenever the regions up to the end of the log hold n bytes.
C11_ReadAcrossBlocks ==
    (mode = "across" /\ phase = "read" /\ last.length > LeftInRegion(last.start)
        /\ Len(StreamFrom(last.start)) >= last.length) =>
        /\ last.err = NoError
        /\ last.bytes = SubSeq(StreamFrom(last.start), 1, last.length)
        /\ Len(last.bytes) = last.length

\* six bytes read from three blocks, the cursor in the middle of the first
C11_Witness ==
    /\ mode = "across" /\ phase = "read"
    /\ last.start.dataOffset = 1 /\ last.length = 6
    /\ last.err = NoError
    /\ last.bytes = <<66, 67, 68, 69, 71, 72>>
    /\ BlocksRead(r) = 3

\* the length of the data region of the block described by b
RegionLen(b) == Max(Min(DataLenOf(b), 508), LogBlockHdrSize) - LogBlockHdrSize
\* the number of the block that ends at the file offset off
BlockAt(off) == (off - LogFileHdrSize) \div OSFileLogBlockSize
\* the length of the data regions of the blocks j..k of the file
RECURSIVE RegionsLen(_, _)
RegionsLen(j, k) == IF j > k THEN 0 ELSE RegionLen(file.blocks[j]) + RegionsLen(j + 1, k)
\* the stream bytes between the type byte of the record returned last and
\* the cursor, the type byte included
Advanced ==
    IF r.fileOff = last.fileOff THEN r.dataOffset - last.at
    ELSE (RegionLen(file.blocks[BlockAt(last.fileOff)]) - last.at)
         + RegionsLen(BlockAt(last.fileOff) + 1, BlockAt(r.fileOff) - 1)
         + (IF r.currentBlock.DataLen = 0 THEN 0 ELSE r.dataOffset)

\* C12: the Length of a record returned is the number of stream bytes the
\* cursor advanced for it, its type byte included.
C12_LengthIsBytesConsumed ==
    (mode = "reader" /\ last.rec # NULL) => last.rec.Length = Advanced

\* a call that returned the end of the log: end of file, or a block whose
\* data length is 0
EndOfLog(call) == call.err = "EOF" \/ call.err = "end of valid log data"

\* C13: after a ReadRecord call has returned the end of the log, the next
\* call returns the end of the log again, and so does every later one.
C13_EndOfLogIsFinal ==
    [][(mode = "reader" /\ EndOfLog(last)) => EndOfLog(last')]_vars

\* C19: the LSN of a record returned is the logical offset of its type byte:
\* the LSN of the checkpoint ReadHeader selected plus the data-region bytes
\* that precede the type byte (the data regions of the blocks consumed
\* before the record's block, and the offset of the type byte in its own).
C19_LSNIsLogicalOffset ==
    (mode = "reader" /\ last.rec # NULL /\ r.lastCheckpoint # NULL) =>
        U64(last.rec.LSN) =
            U64Add(r.lastCheckpoint.CheckpointLSN,
                   RegionsLen(1, BlockAt(last.fileOff) - 1) + last.at)

\* C20: a MULTI_REC_END record (type 31) consumes its type byte and nothing
\* more, wherever it sits in a data region: its Length is 1 and the cursor
\* stands on the byte right after the type byte.
C20_MultiRecEndIsOneByte ==
    (mode = "reader" /\ last.rec # NULL /\ last.rec.Type = MLogMultiRecEnd) =>
        /\ last.rec.Length = 1
        /\ r.fileOff = last.fileOff
        /\ r.dataOffset = last.at + 1

\* the bytes of the current data region after the type byte of the record
\* returned last
AfterType == SliceFrom(r.blockData, last.at + 1)
\* the compressed space id that starts there, and the page number after it
SpaceAfterType == parseCompressedUint64(AfterType)
PageAfterType == parseCompressedUint64(SliceFrom(AfterType, SpaceAfterType.bytesRead))
\* the bytes of a record of kind n (1, 2, 4 or 8) laid out as type, space id,
\* page number, 2-byte page offset, n-byte value
NBytesSize(n) == 1 + SpaceAfterType.bytesRead + PageAfterType.bytesRead + 2 + n
\* both integers decode and the record ends inside the data region
NBytesInside(n) ==
    /\ SpaceAfterType.bytesRead > 0 /\ PageAfterType.bytesRead > 0
    /\ last.at + NBytesSize(n) <= Len(r.blockData)

\* C21: a record of kind 1, 2, 4 or 8 that lies wholly inside a data region
\* consumes, after its type byte, a compressed space id, a compressed page
\* number, a 2-byte page offset and a value of 1, 2, 4 or 8 bytes, and carries
\* that space id and page number.
C21_NBytesLayout ==
    (mode = "reader" /\ last.rec # NULL /\ last.rec.Type \in {1, 2, 4, 8}
        /\ NBytesInside(last.rec.Type)) =>
        /\ r.dataOffset = last.at + NBytesSize(last.rec.Type)
        /\ last.rec.SpaceID = SubSeq(SpaceAfterType.value, 5, 8)
        /\ last.rec.PageNo = SubSeq(PageAfterType.value, 5, 8)

\* C22: when the payload of a REC_INSERT_8027 record needs more bytes than
\* the stream still holds and no further block can be loaded, the ReadRecord
\* call returns an error and no record.
C22_ShortPayloadIsError ==
    (mode = "reader" /\ last.readErr \in {"EOF", "end of valid log data"}) =>
        /\ last.rec = NULL
        /\ last.err # NoError

\* the 16-bit integer whose high byte is byte off (from 0) of b
HighByteFirst(b, off) == 256 * b[off + 1] + b[off + 2]

\* C23: the data length and the first record group of the block loaded last
\* are the block's bytes 4..5 and 6..7 read as big-endian 16-bit integers.
C23_BlockHeaderBigEndian ==
    (mode = "reader" /\ r.currentBlock.DataLen > 0 /\ r.blockBytes # <<>>) =>
        /\ r.currentBlock.DataLen = HighByteFirst(r.blockBytes, LogBlockHdrDataLen)
        /\ r.currentBlock.FirstRecGroup = HighByteFirst(r.blockBytes, LogBlockFirstRecGroup)

\* C24: after ReadHeader and after every ReadRecord call the cursor lies in
\* the current data region or at its end, and the region holds at most 496
\* bytes: 0 <= dataOffset <= len(blockData) <= 496.
C24_CursorInsideRegion ==
    mode = "reader" =>
        /\ 0 <= r.dataOffset
        /\ r.dataOffset <= Len(r.blockData)
        /\ Len(r.blockData) <= LogBlockDataSize

\* a record whose parser stopped at the very end of a region of 496 bytes
C24_Witness ==
    /\ mode = "reader" /\ last.rec # NULL
    /\ Len(r.blockData) = LogBlockDataSize
    /\ r.dataOffset = LogBlockDataSize

\* the cursor of the reader s stands inside its data region, the last byte of
\* the region is a valid type and no byte between the two is
LastByteIsNext(s) ==
    /\ s.dataOffset >= 1 /\ s.dataOffset < Len(s.blockData)
    /\ ValidType(s.blockData[Len(s.blockData)])
    /\ \A i \in (s.dataOffset + 1)..(Len(s.blockData) - 1) : ~ValidType(s.blockData[i])

\* C25: a valid type byte that is the last byte of a data region is emitted:
\* when it is the next valid type byte after the cursor, the next ReadRecord
\* call returns a record of that type, found at that byte of that block.
C25_LastByteEmitted ==
    [][(mode = "reader" /\ phase = "header" /\ LastByteIsNext(r)) =>
          /\ last'.rec # NULL
          /\ last'.rec.Type = r.blockData[Len(r.blockData)]
          /\ last'.fileOff = r.fileOff
          /\ last'.at = Len(r.blockData) - 1]_vars

\* C26: every ReadRecord call made so far has ended with a record and no
\* error, or with an error and no record.
C26_ReadRecordReturns ==
    (mode = "reader" /\ last # NoCall) =>
        \/ last.rec # NULL /\ last.err = NoError
        \/ last.rec = NULL /\ last.err \notin {NoError, "panic"}

(***************************************************************************)
(* Properties of the fixture reader (SpecFixture).                         *)
(***************************************************************************)
\* got, a record the reader returned, is the record wrote the writer was given
SameRecord(got, wrote) ==
    /\ got # NULL
    /\ got.Type = wrote.Type /\ got.LSN = wrote.LSN
    /\ got.TransactionID = wrote.TransactionID

\* C16: on a file made of the 64-byte header and k records the fixture
\* writer wrote, the i-th ReadRecord call after ReadHeader returns the i-th
\* record written (same Type, LSN and TransactionID), the calls after the
\* last record return an error with IsEOF() true, and a ReadRecord call
\* that follows a Seek to the offset of record j returns record j.
C16_FixtureRecordsInOrder ==
    (mode = "fixture" /\ phase = "header" /\ last.op = "ReadRecord") =>
        /\ (last.seeks = 0 /\ last.calls <= Len(file.written)) =>
              /\ last.err = NoError
              /\ Len(out) = last.calls
              /\ \A i \in 1..Len(out) : SameRecord(out[i], file.written[i])
        /\ (last.seeks = 0 /\ last.calls > Len(file.written)) =>
              /\ last.err # NoError /\ last.rec = NULL
              /\ fixtureIsEOF(r)
              /\ Len(out) = Len(file.written)
        /\ last.sought > 0 =>
              /\ last.err = NoError
              /\ SameRecord(last.rec, file.written[last.sought])

\* the three sample records read in order, the end of the file met, then a
\* Seek back to the second record and that record read again
C16_Witness ==
    /\ mode = "fixture" /\ last.op = "ReadRecord"
    /\ file.written = <<SampleInsertRecord, SampleUpdateRecord, SampleCommitRecord>>
    /\ last.sought = 2 /\ fixtureIsEOF(r)
    /\ Len(out) = 4 /\ out[4].LSN = U64(1002) /\ out[4].Type = LogTypeUpdate
    /\ r.fileOff = 64 + 79 + 93

\* C27: a ReadRecord call of the fixture reader never indexes outside the
\* bytes it fetched, whatever length the record declares, and it returns an
\* error and no record when the declared length is below 47, too short for
\* the type, the length and the 42 bytes of fixed fields.
C27_ShortLengthIsError ==
    (mode = "fixture" /\ last.op = "ReadRecord" /\ last.calls = 1) =>
        /\ last.err # "panic"
        /\ DeclaredLength(file) < 47 => (last.rec = NULL /\ last.err # NoError)

\* C28: once an IsEOF call of the fixture reader has returned true, no later
\* ReadRecord call returns a record, whatever Seek and ReadHeader calls were
\* made in between.
C28_NoRecordAfterEOF ==
    [][(mode = "fixture" /\ last.sawEOF /\ last'.op = "ReadRecord"
           /\ last'.calls = last.calls + 1) =>
          last'.rec = NULL]_vars

(***************************************************************************)
(* Properties of loadRedoLogData (SpecLoad).                               *)
(***************************************************************************)
\* the error of a ReadRecord call that met the end of the file where the
\* next block or the next record would begin
AtEndOfFile(err) == err \in {"EOF", "failed to read record type: EOF"}

\* rec as the reader returned it, before the grouping pass marked it
Unmarked(rec) ==
    [rec EXCEPT !.MultiRecordGroup = 0, !.IsGroupStart = FALSE, !.IsGroupEnd = FALSE]

\* the record loop has ended for one of the three benign reasons
BenignStop ==
    /\ mode = "load" /\ last # NULL
    /\ \/ AtEndOfFile(last.err)
       \/ last.err = "end of valid log data"
       \/ last.err = NoError /\ Len(out) >= maxRecords

C15_ClosedOnReturn ==
    (mode = "load" /\ phase = "returned") => handle # "open"

\* a return on a record read error, the file opened before now closed
C15_Witness ==
    /\ mode = "load" /\ phase = "returned" /\ handle = "closed"
    /\ last # NULL /\ last.stop = "error" /\ ret.err = "failed to read record"

(***************************************************************************)
(* Properties of getOperationType and createReader.                        *)
(***************************************************************************)
\* C17: getOperationType answers "insert" for the types 9 and 38, "update"
\* for 13 and 41, "delete" for 10, 11, 14, 15, 16, 39, 40, 42, 43 and 44, and
\* "other" for every other byte 0..255.
C17_OperationClasses ==
    (mode = "optype" /\ parsed # "") =>
        /\ parsed = "insert" <=> (value = 9 \/ value = 38)
        /\ parsed = "update" <=> (value = 13 \/ value = 41)
        /\ parsed = "delete" <=> \/ value = 10 \/ value = 11
                                 \/ (14 <= value /\ value <= 16)
                                 \/ value = 39 \/ value = 40
                                 \/ (42 <= value /\ value <= 44)
        /\ parsed = "other" <=> ~ \/ value \in 9..11 \/ value \in 13..16
                                  \/ value \in 38..44
        /\ parsed \in {"insert", "update", "delete", "other"}

\* MLOG_REC_SEC_DELETE_MARK classed
C17_Witness == mode = "optype" /\ value = 11 /\ parsed = "delete"

\* C18: createReader picks the MySQL block reader exactly when the file is
\* larger than 1 MB (1,000,000 bytes) and the fixture reader for every size
\* up to and including it.
C18_ReaderBySize ==
    (mode = "create" /\ parsed # "" /\ value # NULL) =>
        /\ parsed = "mysql" <=> value.Size > 1000000
        /\ parsed = "fixture" <=> value.Size <= 1000000

\* a file of exactly 1,000,000 bytes gets the fixture reader
C18_Witness ==
    /\ mode = "create" /\ value # NULL /\ parsed = "fixture"
    /\ value.Size = 1000000

(***************************************************************************)
(* Properties of the multi-record-group pass (SpecGroups).                 *)
(***************************************************************************)
IsEnd(k) == records[k].Type = MLogMultiRecEnd
Positions == 1..Len(records)
GroupOf(k) == records[k].MultiRecordGroup
RunOf(g) == {k \in Positions : GroupOf(k) = g}
First(S) == CHOOSE k \in S : \A q \in S : k <= q
Final(S) == CHOOSE k \in S : \A q \in S : k >= q

\* C2: after a pass, the records that share a group id > 0 are one contiguous
\* run; the first record of the run, and only it, has IsGroupStart; the last
\* record of the run, and only it, has IsGroupEnd, and it is a MULTI_REC_END.
C2_GroupIsContiguousRun ==
    passes >= 1 =>
        \A g \in {GroupOf(k) : k \in Positions} \ {0} :
            LET run == RunOf(g) IN
            /\ run = First(run)..Final(run)
            /\ \A k \in run : records[k].IsGroupStart <=> k = First(run)
            /\ \A k \in run : records[k].IsGroupEnd <=> k = Final(run)
            /\ IsEnd(Final(run))

\* two groups, the first of three records or more
C2_Witness ==
    /\ passes >= 1
    /\ Cardinality(RunOf(1)) >= 3
    /\ RunOf(2) # {}

\* a MULTI_REC_END that closes a group: the record before it is not one
Closing(k) == IsEnd(k) /\ k > 1 /\ ~IsEnd(k - 1)
\* the number of closing MULTI_REC_END records at positions 1..k
ClosedUpTo(k) == Cardinality({q \in 1..k : Closing(q)})
\* a record that a later MULTI_REC_END follows
Closed(k) == \E q \in (k + 1)..Len(records) : IsEnd(q)

\* C3: groups are numbered 1, 2, 3, ... in sequence order.  The k-th closing
\* MULTI_REC_END has group id k, and so has every record from the first
\* non-END record after the previous MULTI_REC_END; that first record has
\* IsGroupStart and the closing record IsGroupEnd; the records after the
\* last MULTI_REC_END have group id 0 and neither flag.
C3_GroupsNumberedInOrder ==
    passes >= 1 =>
        \A k \in Positions :
            /\ Closing(k) => GroupOf(k) = ClosedUpTo(k)
            /\ (~IsEnd(k) /\ Closed(k)) => GroupOf(k) = ClosedUpTo(k) + 1
            /\ (~IsEnd(k) /\ ~Closed(k)) =>
                   GroupOf(k) = 0 /\ ~records[k].IsGroupStart /\ ~records[k].IsGroupEnd
            /\ records[k].IsGroupStart <=>
                   (~IsEnd(k) /\ Closed(k) /\ (k = 1 \/ IsEnd(k - 1)))
            /\ records[k].IsGroupEnd <=> Closing(k)

\* a second group, and a record after the last MULTI_REC_END
C3_Witness ==
    /\ passes >= 1
    /\ \E k \in Positions : Closing(k) /\ GroupOf(k) = 2
    /\ Len(records) >= 1 /\ ~IsEnd(Len(records)) /\ GroupOf(Len(records)) = 0

\* a MULTI_REC_END with no record of another type since the previous one
Orphan(k) == IsEnd(k) /\ (k = 1 \/ IsEnd(k - 1))

\* C4: the pass keeps every record at its position (same length, same type,
\* LSN and length at every index), and a MULTI_REC_END with no non-END record
\* since the previous one has group id 0 and no IsGroupEnd.
C4_OrphanEndPreserved ==
    passes >= 1 =>
        /\ Len(records) = Len(before)
        /\ \A k \in Positions :
              /\ records[k].Type = before[k].Type
              /\ records[k].LSN = before[k].LSN
              /\ records[k].Length = before[k].Length
              /\ Orphan(k) => GroupOf(k) = 0 /\ ~records[k].IsGroupEnd

\* an orphan right after the end of a group, and one at the start
C4_Witness ==
    /\ passes >= 1
    /\ Len(records) >= 4
    /\ Orphan(1)
    /\ \E k \in 3..Len(records) : Orphan(k) /\ GroupOf(k - 1) = 1 /\ records[k - 1].IsGroupEnd

\* C29: a second pass over the records a first pass has marked leaves the
\* group number and the two boundary flags of every record as they were, and
\* no pass changes the type, the LSN or the length of a record or the order
\* or number of the records.
C29_GroupingIdempotent ==
    [][mode = "groups" =>
          /\ Len(records') = Len(records)
          /\ \A k \in 1..Len(records) :
                /\ records'[k].Type = records[k].Type
                /\ records'[k].LSN = records[k].LSN
                /\ records'[k].Length = records[k].Length
                /\ passes >= 1 =>
                      /\ records'[k].MultiRecordGroup = records[k].MultiRecordGroup
                      /\ records'[k].IsGroupStart = records[k].IsGroupStart
                      /\ records'[k].IsGroupEnd = records[k].IsGroupEnd]_vars

\* two passes made over a group of two, a marker outside any group and a
\* group of three
C29_Witness ==
    /\ mode = "groups" /\ passes = 2 /\ Len(records) = 6
    /\ records[1].IsGroupStart /\ records[2].IsGroupEnd /\ records[2].MultiRecordGroup = 1
    /\ records[3].Type = MLogMultiRecEnd /\ records[3].MultiRecordGroup = 0
    /\ records[4].IsGroupStart /\ records[6].IsGroupEnd /\ records[6].MultiRecordGroup = 2

(***************************************************************************)
(* parseCompressedUint64 on byte strings.                                  *)
(***************************************************************************)
MaxTail == 8        \* bytes after the first byte of a byte string

FirstBytes == {0, 42, 127, 128, 170, 191, 192, 202, 223, 224, 234, 239, 240, 242, 247,
               248, 254, 255}
TailBytes == {0, 42, 255}

\* the minimal-width form of the uint64 v: 1 byte below 2^7, 2 below 2^14,
\* 3 below 2^21, 4 below 2^28, 5 below 2^35, else 0xFF and the 8 bytes
Encode(v) ==
    IF v[1] = 0 /\ v[2] = 0 /\ v[3] = 0 /\ v[4] = 0 /\ v[5] = 0 /\ v[6] = 0 /\ v[7] = 0 /\ v[8] < 128
        THEN <<v[8]>>
    ELSE IF v[1] = 0 /\ v[2] = 0 /\ v[3] = 0 /\ v[4] = 0 /\ v[5] = 0 /\ v[6] = 0 /\ v[7] < 64
        THEN <<128 + v[7], v[8]>>
    ELSE IF v[1] = 0 /\ v[2] = 0 /\ v[3] = 0 /\ v[4] = 0 /\ v[5] = 0 /\ v[6] < 32
        THEN <<192 + v[6], v[7], v[8]>>
    ELSE IF v[1] = 0 /\ v[2] = 0 /\ v[3] = 0 /\ v[4] = 0 /\ v[5] < 16
        THEN <<224 + v[5], v[6], v[7], v[8]>>
    ELSE IF v[1] = 0 /\ v[2] = 0 /\ v[3] = 0 /\ v[4] < 8
        THEN <<240 + v[4], v[5], v[6], v[7], v[8]>>
    ELSE <<255>> \o v

\* values below 2^56 around every width boundary
SampleValues ==
    { <<0, d2, d3, d4, d5, d6, d7, d8>> :
        d2 \in {0, 1, 255}, d3 \in {0, 42}, d4 \in {0, 7, 8, 255}, d5 \in {0, 15, 16, 255},
        d6 \in {0, 31, 32, 255}, d7 \in {0, 63, 64, 255}, d8 \in {0, 127, 128, 255} }

InitCodec ==
    /\ mode = "codec" /\ IdleApp
    /\ \/ /\ value = NULL
          /\ data \in {<<>>} \cup { <<f>> \o t : f \in FirstBytes, t \in SeqsUpTo(TailBytes, MaxTail) }
       \/ /\ value \in SampleValues
          /\ data = Encode(value)
    /\ parsed = NULL
    /\ IdleReader /\ IdleGroups /\ IdleLoad

DoParseCompressed ==
    /\ mode = "codec" /\ parsed = NULL
    /\ parsed' = parseCompressedUint64(data)
    /\ UNCHANGED <<app, mode, file, r, phase, header, last, out, value, data, records, before, passes,
                 kind, handle, cursor, ret>>

SpecCodec == InitCodec /\ [][DoParseCompressed]_vars

(***************************************************************************)
(* Properties of parseCompressedUint64 (SpecCodec).                        *)
(***************************************************************************)
\* the width the first byte announces, 0 for the first bytes 0xF8..0xFE
Width(b) ==
    IF b <= 127 THEN 1 ELSE IF b <= 191 THEN 2 ELSE IF b <= 223 THEN 3
    ELSE IF b <= 239 THEN 4 ELSE IF b <= 247 THEN 5 ELSE IF b = 255 THEN 9 ELSE 0
\* the marker bits of a first byte
Marker(b) ==
    IF b <= 127 THEN 0 ELSE IF b <= 191 THEN 128 ELSE IF b <= 223 THEN 192
    ELSE IF b <= 239 THEN 224 ELSE 240
\* the big-endian value of the first w bytes of d, marker bits taken off
ExpectedValue(d, w) ==
    IF w = 9 THEN SubSeq(d, 2, 9)
    ELSE [i \in 1..8 |-> IF i <= 8 - w THEN 0
                         ELSE IF i = 9 - w THEN d[1] - Marker(d[1])
                         ELSE d[i - 8 + w]]

\* C7: the first byte selects the width 1, 2, 3, 4, 5 or 9; a buffer that
\* holds that many bytes decodes to the big-endian value without the marker
\* bits and that width is consumed; a shorter buffer yields 0 bytes consumed
\* and the value 0.
C7_WidthAndValue ==
    parsed # NULL =>
        IF Len(data) = 0 THEN parsed.bytesRead = 0 /\ parsed.value = U64Zero
        ELSE LET w == Width(data[1]) IN
             w # 0 =>
                IF Len(data) >= w
                THEN parsed.bytesRead = w /\ parsed.value = ExpectedValue(data, w)
                ELSE parsed.bytesRead = 0 /\ parsed.value = U64Zero

\* a 3-byte form with value bits under the marker, decoded
C7_Witness ==
    /\ parsed # NULL /\ Len(data) >= 3 /\ data[1] = 223
    /\ parsed.bytesRead = 3 /\ parsed.value[6] = 31

\* the minimal width of the uint64 v
MinimalWidth(v) ==
    IF U64Less(v, <<0, 0, 0, 0, 0, 0, 0, 128>>) THEN 1
    ELSE IF U64Less(v, <<0, 0, 0, 0, 0, 0, 64, 0>>) THEN 2
    ELSE IF U64Less(v, <<0, 0, 0, 0, 0, 32, 0, 0>>) THEN 3
    ELSE IF U64Less(v, <<0, 0, 0, 0, 16, 0, 0, 0>>) THEN 4
    ELSE IF U64Less(v, <<0, 0, 0, 8, 0, 0, 0, 0>>) THEN 5
    ELSE 9

\* C8: decoding the minimal-width encoding of a value below 2^56 returns the
\* value and consumes exactly the minimal width.
C8_RoundTrip ==
    (value # NULL /\ parsed # NULL) =>
        /\ value[1] = 0
        /\ parsed.value = value
        /\ parsed.bytesRead = MinimalWidth(value)
        /\ parsed.bytesRead = Len(data)

\* a value of 2^35 or more, whose bytes differ, decoded from the 9-byte form
C8_Witness ==
    /\ value # NULL /\ parsed # NULL
    /\ value[2] = 1 /\ value[8] = 128
    /\ parsed.bytesRead = 9

====
